---- MODULE Spec2Model ----
(***************************************************************************)
(* Model of the yt-sus browser extension (orthrauku-dev/yt-sus).           *)
(*                                                                         *)
(* The source files under src/extension hold several revisions of each     *)
(* script one after the other; the model follows the latest revision of    *)
(* each: background.js lines 81-458 (the background coordinator) and       *)
(* content.js (the page annotator's identity resolver).                    *)
(*                                                                         *)
(* Strings whose characters matter (URLs, channel identifiers) are         *)
(* sequences of one-character strings, so that regular-expression search,  *)
(* startsWith and toLowerCase are computed character by character.         *)
(***************************************************************************)
EXTENDS Integers, Sequences, FiniteSets, TLC

VARIABLES
    \* ---- content script (content.js) ----
    url,                 \* argument of extractChannelId
    extracted,           \* [done, value]: what extractChannelId returned
    channelId,           \* argument of isChannelFlagged
    highlightedChannels, \* content.js:8, the tab's copy of the flagged map
    flagged,             \* [done, value]: what isChannelFlagged returned
    settings,            \* content.js:9, showVideoTitle and showChannelHeader
    location,            \* the page shown: its kind, channel links, video id
    header,              \* the channel header element: class, warnings, styles
    title,               \* the video title element: its warning elements
    currentVideoId,      \* content.js:271
    passes,              \* applyHighlights invocations suspended at an await
    decoration,          \* the source variant of highlightElement applied to
                         \* header, how far, and the styles it assigned
    popup,               \* popup.js: its settings, the channel of the active
                         \* tab, the store keys it wrote itself and the
                         \* actions it sent to the background (history)
    \* ---- background coordinator (background.js:81-458) ----
    storage,             \* chrome.storage.local: highlightedChannels,
                         \* channelVotes, lastAPISync, apiSyncEnabled
    now,                 \* the clock read by new Date(), in hours
    tasks,               \* handler invocations suspended at an await/callback
    notifySeq,           \* flips at every notifyAllTabs call
    notified,            \* the map carried by the last updateHighlights
    requestsLeft,        \* requests and events the run still takes up
    \* ---- voting widget (unnamed/part_004:486-1125) ----
    votesCache,          \* chrome.storage.local channelVotesCache
    votedChannels,       \* sessionStorage votedChannels
    contextValid,        \* isExtensionContextValid()
    votingEnabled,       \* part_004:506
    voteThreshold,       \* part_004:507
    page,                \* the channel of the page shown, Null if none
    timerPending,        \* part_004:1060, initializationTimeout is running
    calls,               \* widget invocations suspended at a sendMessage
    buttons,             \* the vote buttons created and still referenced
    dom,                 \* the vote buttons in the page, in document order
    outbox,              \* addChannel messages not yet taken up
    \* ---- history (not program state) ----
    hist,                \* the last completed write of highlightedChannels
    lastGet,             \* the last GET issued by a scheduled or non-forced sync
    sentVotes,           \* voteChannel requests sent, by channel
    ret,                 \* the last return of getChannelVotesFromAPI or
                         \* upvoteChannel
    known,               \* by channel, the count the extension recorded last
    wait,                \* waitForElement: the promise, its observer and timer, the DOM
    sidebar,             \* part_000: the sidebar items, the timers and the observers
    received,            \* the map requests the coordinator has received (history)
    synced,              \* the ids the last recorded sync merged, and those removed since (history)
    tabs,                \* the open tabs: each one's cached map and its messages in flight
    database,            \* ChannelDatabase: the stored object, the last call and the expected members
    passLog              \* the annotation passes completed in succession

annotVars == <<settings, location, header, title, currentVideoId, passes,
               decoration, popup, wait, sidebar,
                   received,
                   synced,
                   tabs,
                   database,
                   passLog>>

resolverVars == <<url, extracted, channelId, highlightedChannels, flagged, annotVars>>

coordVars == <<storage, now, tasks, notifySeq, notified, requestsLeft,
              hist, lastGet>>

widgetVars == <<votesCache, votedChannels, contextValid, votingEnabled,
                voteThreshold, page, timerPending, calls, buttons, dom,
                outbox, sentVotes, ret, known>>

vars == <<url, extracted, channelId, highlightedChannels, flagged,
          storage, now, tasks, notifySeq, notified, requestsLeft,
          hist, lastGet,
          votesCache, votedChannels, contextValid, votingEnabled,
          voteThreshold, page, timerPending, calls, buttons, dom, outbox,
          sentVotes, ret, known, annotVars>>

-----------------------------------------------------------------------------
(* Characters and strings *)

LowerLetters == <<"a", "b", "c", "d", "e", "f", "g", "h", "i", "j", "k", "l", "m", "n", "o", "p", "q", "r", "s", "t", "u", "v", "w", "x", "y", "z">>

UpperLetters == <<"A", "B", "C", "D", "E", "F", "G", "H", "I", "J", "K", "L", "M", "N", "O", "P", "Q", "R", "S", "T", "U", "V", "W", "X", "Y", "Z">>

DigitChars == {"0", "1", "2", "3", "4", "5", "6", "7", "8", "9"}

Range(s) == {s[i] : i \in DOMAIN s}

\* The character class [\w-] of the four regular expressions.
WordChars == Range(LowerLetters) \cup Range(UpperLetters) \cup DigitChars \cup {"_", "-"}

\* JavaScript null and the empty string: both are falsy, and neither is ever
\* a channel identifier.
Null == <<>>

LowerChar(c) ==
    IF \E k \in DOMAIN UpperLetters : UpperLetters[k] = c
    THEN LowerLetters[CHOOSE k \in DOMAIN UpperLetters : UpperLetters[k] = c]
    ELSE c

toLowerCase(s) == [i \in DOMAIN s |-> LowerChar(s[i])]

startsWith(s, p) == Len(s) >= Len(p) /\ SubSeq(s, 1, Len(p)) = p

\* s.includes(sub)
includes(s, sub) ==
    \E i \in 1..(Len(s) - Len(sub) + 1) : SubSeq(s, i, i + Len(sub) - 1) = sub

IsNoUnderscore(c) == c # "_"

\* s.replace(/_/g, '')
removeUnderscores(s) == SelectSeq(s, IsNoUnderscore)

\* The first position at or after from of a character of chars in s, or
\* Len(s) + 1.
IndexOfAny(s, chars, from) ==
    IF \E i \in from..Len(s) : s[i] \in chars
    THEN CHOOSE i \in from..Len(s) :
            s[i] \in chars /\ \A j \in from..(i - 1) : s[j] \notin chars
    ELSE Len(s) + 1

-----------------------------------------------------------------------------
(* Identity resolver: extractChannelId (content.js:34-54) *)

PrefixHandle == <<"/", "@">>

PrefixChannel == <<"/", "c", "h", "a", "n", "n", "e", "l", "/">>

PrefixCustom == <<"/", "c", "/">>

PrefixUser == <<"/", "u", "s", "e", "r", "/">>

\* The pattern  prefix([\w-]+)  matches at position i of s.
MatchesAt(s, prefix, i) ==
    /\ i + Len(prefix) <= Len(s)
    /\ SubSeq(s, i, i + Len(prefix) - 1) = prefix
    /\ s[i + Len(prefix)] \in WordChars

\* s.match(/prefix([\w-]+)/): the capture group of the leftmost match anywhere
\* in s (the expressions are not anchored), taken greedily; Null if no match.
RegexCapture(s, prefix) ==
    IF \E i \in DOMAIN s : MatchesAt(s, prefix, i)
    THEN LET i == CHOOSE k \in DOMAIN s :
                     /\ MatchesAt(s, prefix, k)
                     /\ \A j \in 1..(k - 1) : ~MatchesAt(s, prefix, j)
             from == i + Len(prefix)
             to == CHOOSE e \in from..Len(s) :
                     /\ \A j \in from..e : s[j] \in WordChars
                     /\ (e = Len(s) \/ s[e + 1] \notin WordChars)
         IN SubSeq(s, from, to)
    ELSE Null

extractChannelId(u) ==
    IF u = Null THEN Null
    ELSE IF RegexCapture(u, PrefixHandle) # Null
         THEN <<"@">> \o RegexCapture(u, PrefixHandle)
    ELSE IF RegexCapture(u, PrefixChannel) # Null
         THEN RegexCapture(u, PrefixChannel)
    ELSE IF RegexCapture(u, PrefixCustom) # Null
         THEN RegexCapture(u, PrefixCustom)
    ELSE IF RegexCapture(u, PrefixUser) # Null
         THEN RegexCapture(u, PrefixUser)
    ELSE Null

-----------------------------------------------------------------------------
(* Identity resolver: isChannelFlagged (content.js:57-116) *)

\* isChannelFlagged with the key comparison ignoring letter case for every
\* identifier, handle or not.
isChannelFlaggedAnyCase(cid, channels) ==
    IF cid = Null THEN FALSE
    ELSE IF cid \in DOMAIN channels THEN TRUE
    ELSE \E key \in DOMAIN channels :
            \/ toLowerCase(key) = toLowerCase(cid)
            \/ /\ channels[key].id # Null
               /\ \/ /\ startsWith(channels[key].id, <<"@">>)
                     /\ toLowerCase(channels[key].id) = toLowerCase(cid)
                  \/ channels[key].id = cid

\* channel.id of a stored entry; Null when the entry has no id property.
\* The loop returns at the first matching entry, so the result is true
\* exactly when some entry matches.
isChannelFlagged(cid, channels) ==
    IF cid = Null THEN FALSE
    ELSE IF cid \in DOMAIN channels THEN TRUE
    ELSE \E key \in DOMAIN channels :
            \/ (startsWith(cid, <<"@">>) /\ toLowerCase(key) = toLowerCase(cid))
            \/ /\ channels[key].id # Null
               /\ \/ /\ startsWith(channels[key].id, <<"@">>)
                     /\ toLowerCase(channels[key].id) = toLowerCase(cid)
                  \/ channels[key].id = cid
            \/ (~startsWith(cid, <<"@">>) /\ key = cid)

-----------------------------------------------------------------------------
(* Inputs of the resolver *)

Origins == {
    <<>>,
    <<"h", "t", "t", "p", "s", ":", "/", "/", "w", "w", "w", ".", "y", "o", "u", "t", "u", "b", "e", ".", "c", "o", "m">> }

Paths == {
    <<>>,
    <<"/">>,
    <<"/", "@", "F", "o", "o", "_", "B", "a", "r">>,
    <<"/", "@", "f", "o", "o", "/", "v", "i", "d", "e", "o", "s">>,
    <<"/", "@", "j", "o", "h", "n", ".", "d", "o", "e">>,
    <<"/", "c", "h", "a", "n", "n", "e", "l", "/", "U", "C", "1", "2", "3">>,
    <<"/", "c", "h", "a", "n", "n", "e", "l", "/", "U", "C", "1", "-", "x", "/", "a", "b", "o", "u", "t">>,
    <<"/", "c", "/", "c", "u", "s", "t", "o", "m">>,
    <<"/", "u", "s", "e", "r", "/", "l", "e", "g", "a", "c", "y">>,
    <<"/", "w", "a", "t", "c", "h">>,
    <<"/", "f", "e", "e", "d", "/", "c", "h", "a", "n", "n", "e", "l", "s">>,
    <<"/", "s", "h", "o", "r", "t", "s", "/", "a", "b", "c">> }

Queries == {
    <<>>,
    <<"?", "v", "=", "x">>,
    <<"?", "v", "=", "x", "&", "n", "e", "x", "t", "=", "/", "c", "/", "f", "o", "o">> }

URLs == {o \o p \o q : o \in Origins, p \in Paths, q \in Queries}

IdHandleFoo == <<"@", "F", "o", "o">>

IdHandleFooLower == <<"@", "f", "o", "o">>

IdHandleBar == <<"@", "B", "a", "r">>

IdChannel == <<"U", "C", "1">>

IdChannelLower == <<"u", "c", "1">>

\* Identifiers stored as keys or id properties of the tab's map.
FlagIds == {IdHandleFoo, IdHandleFooLower, IdChannel, IdChannelLower}

\* Identifiers looked up.
LookupIds == FlagIds \cup {IdHandleBar, Null}

MaxKeys == 2

\* An entry of the tab's map, as far as isChannelFlagged reads it.
CacheEntry(id) == [id |-> id]

CacheMaps ==
    UNION {[keys -> {CacheEntry(i) : i \in FlagIds \cup {Null}}] :
             keys \in {k \in SUBSET FlagIds : Cardinality(k) <= MaxKeys}}

NotCalled == [done |-> FALSE, value |-> Null]

NotChecked == [done |-> FALSE, value |-> FALSE]

-----------------------------------------------------------------------------
(* Background coordinator: data (background.js:81-458) *)

\* Channels the coordinator is asked about: a handle and a platform id.
ChannelIds == {IdHandleFoo, IdChannel}

\* An absent votes property or field (undefined).
NoVotes == -1

\* An absent timestamp (lastAPISync never stored, flaggedDate not sent).
NoTime == 0

SyncIntervalHours == 24

EmptyMap == [k \in {} |-> NoVotes]

Put(m, k, v) == [x \in DOMAIN m \cup {k} |-> IF x = k THEN v ELSE m[x]]

Remove(m, k) == [x \in DOMAIN m \ {k} |-> m[x]]

\* v || 0
OrZero(v) == IF v = NoVotes THEN 0 ELSE v

\* The channelHandle the popup sends with a toggleChannel request.
HandleOf(id) == IF startsWith(id, <<"@">>) THEN id ELSE Null

\* ManualEntry with the handle stored as the entry's id.
ManualEntryIdFromHandle(id, name, handle, t) ==
    [id |-> handle, name |-> name, handle |-> handle, addedAt |-> t,
     highlighted |-> TRUE, autoAdded |-> FALSE, fromAPI |-> FALSE,
     votes |-> NoVotes]

\* The entry toggleChannel stores (no fromAPI, no votes property).
ManualEntry(id, name, handle, t) ==
    [id |-> id, name |-> name, handle |-> handle, addedAt |-> t,
     highlighted |-> TRUE, autoAdded |-> FALSE, fromAPI |-> FALSE,
     votes |-> NoVotes]

\* The entry addChannel stores (no fromAPI property).
VotedEntryManual(id, name, votes, t) ==
    [id |-> id, name |-> name, handle |-> id, addedAt |-> t,
     highlighted |-> TRUE, autoAdded |-> FALSE, fromAPI |-> FALSE,
     votes |-> OrZero(votes)]

VotedEntry(id, name, votes, t) ==
    [id |-> id, name |-> name, handle |-> id, addedAt |-> t,
     highlighted |-> TRUE, autoAdded |-> TRUE, fromAPI |-> FALSE,
     votes |-> OrZero(votes)]

\* The entry the sync merge stores for a remote channel (the reason property,
\* copied from the response and read nowhere, is left out).
ApiEntry(id, data, t) ==
    [id |-> id,
     name |-> IF data.channelName = "" THEN "Unknown" ELSE data.channelName,
     handle |-> id,
     addedAt |-> IF data.flaggedDate = NoTime THEN t ELSE data.flaggedDate,
     highlighted |-> TRUE, autoAdded |-> TRUE, fromAPI |-> TRUE,
     votes |-> OrZero(data.votes)]

\* MergeChannels with the remote entry replacing a local entry of the same id.
MergeChannelsOverwriting(local, remote, t) ==
    [id \in DOMAIN local \cup DOMAIN remote |->
        IF id \notin DOMAIN remote THEN local[id]
        ELSE ApiEntry(id, remote[id], t)]

\* The merge loop of fetchFlaggedChannelsFromAPI over Object.entries(remote).
MergeChannels(local, remote, t) ==
    [id \in DOMAIN local \cup DOMAIN remote |->
        IF id \notin DOMAIN remote THEN local[id]
        ELSE IF id \notin DOMAIN local THEN ApiEntry(id, remote[id], t)
        ELSE [local[id] EXCEPT !.votes = OrZero(remote[id].votes)]]

MergeVotes(localVotes, remote) ==
    LET sent == {id \in DOMAIN remote : remote[id].votes # NoVotes}
    IN [id \in DOMAIN localVotes \cup sent |->
           IF id \in sent THEN remote[id].votes ELSE localVotes[id]]

\* clearAutoAdded keeps the entries whose autoAdded is falsy.
KeepManual(channels) ==
    [id \in {k \in DOMAIN channels : ~channels[k].autoAdded} |-> channels[id]]

\* KeepAutoAdded keeping the entries that came from the API instead.
KeepFromAPI(channels) ==
    [id \in {k \in DOMAIN channels : channels[k].fromAPI} |-> channels[id]]

\* clearManualAdded keeps the entries whose autoAdded is truthy.
KeepAutoAdded(channels) ==
    [id \in {k \in DOMAIN channels : channels[k].autoAdded} |-> channels[id]]

\* ToggledChannels that stores the entry again instead of deleting it.
ToggledChannelsNeverDeletes(channels, id, name, handle, t) ==
    Put(channels, id, ManualEntry(id, name, handle, t))

\* toggleChannel's change of the map it read.
ToggledChannels(channels, id, name, handle, t) ==
    IF id \in DOMAIN channels
    THEN Remove(channels, id)
    ELSE Put(channels, id, ManualEntry(id, name, handle, t))

\* shouldSync without the comparison of the age of lastAPISync.
shouldSyncAnyAge(st, t) ==
    IF st.apiSyncEnabled = "false" THEN FALSE
    ELSE TRUE

\* shouldSync(): the gate of the scheduled check.
shouldSync(st, t) ==
    IF st.apiSyncEnabled = "false" THEN FALSE
    ELSE IF st.lastAPISync = NoTime THEN TRUE
    ELSE t - st.lastAPISync >= SyncIntervalHours

\* The gate at the head of fetchFlaggedChannelsFromAPI(false): TRUE when the
\* call goes on to the GET.
PassesFetchGate(st, t) ==
    IF st.apiSyncEnabled = "false" THEN FALSE
    ELSE IF st.lastAPISync # NoTime /\ t - st.lastAPISync < SyncIntervalHours
         THEN FALSE
    ELSE TRUE

\* What GET /flagged_channels may answer: channelName "" and flaggedDate NoTime
\* and votes NoVotes stand for a property the server did not send.
RemoteData(name, date, votes) ==
    [channelName |-> name, flaggedDate |-> date, votes |-> votes]

RemoteLists == {
    Put(EmptyMap, IdChannel, RemoteData("Api", 1, 3)),
    Put(Put(EmptyMap, IdChannel, RemoteData("", NoTime, NoVotes)),
        IdHandleFoo, RemoteData("Api", 1, 3)) }

ChannelNames == {"Title"}

\* addChannel requests: the latest voting widget sends the vote count, the
\* earlier one sends none.
AddRequests == {
    [channelId |-> IdHandleFoo, channelName |-> "Title", votes |-> 3],
    [channelId |-> IdChannel, channelName |-> "Unknown Channel", votes |-> NoVotes] }

-----------------------------------------------------------------------------
(* Background coordinator: suspended handlers and bookkeeping *)

MaxTasks == 2

MaxNow == 2

MaxTime == 26

MaxRequests == 3

MaxSyncRequests == 2

Idle == [action |-> "idle"]

Slots == 1..MaxTasks

HasFreeSlot == \E s \in Slots : tasks[s] = Idle

FreeSlot == CHOOSE s \in Slots : tasks[s] = Idle /\ \A r \in 1..(s - 1) : tasks[r] # Idle

Spawn(task) == [tasks EXCEPT ![FreeSlot] = task]

\* A sync whose GET is in flight.
Fetching(origin) == [action |-> "sync", pc |-> "fetching", origin |-> origin, issuedAt |-> now]

\* History: a scheduled or non-forced sync issues its GET now. mergedBefore
\* is the time of the latest earlier such GET whose merge was stored.
GetIssuedNow ==
    [at |-> now, merged |-> FALSE,
     mergedBefore |-> IF lastGet.merged THEN lastGet.at ELSE lastGet.mergedBefore]

\* Notify that sends an empty map whatever was written.
NotifyEmptyMap(channels) ==
    /\ notifySeq' = 1 - notifySeq
    /\ notified' = EmptyMap

\* notifyAllTabs(channels)
Notify(channels) ==
    /\ notifySeq' = 1 - notifySeq
    /\ notified' = channels

NoNotify == UNCHANGED <<notifySeq, notified>>

\* History: the last completed write of highlightedChannels, by `action`,
\* which had read a map with the keys `before`; isolated when no other write
\* of the map came between its read and its write. twice: it is an isolated
\* toggleChannel that directly follows an isolated toggleChannel of the same
\* channel, which had read a map with the keys `origin`.
Logged(action, id, before, isolated) ==
    LET twice == /\ action = "toggleChannel" /\ isolated
                 /\ hist.action = "toggleChannel" /\ hist.isolated
                 /\ hist.channelId = id
    IN [action |-> action, channelId |-> id, before |-> before,
        isolated |-> isolated, twice |-> twice,
        origin |-> IF twice THEN hist.before ELSE {}]

NoWrite ==
    [action |-> "none", channelId |-> Null, before |-> {}, isolated |-> TRUE,
     twice |-> FALSE, origin |-> {}]

\* ChannelDatabase: no call made yet (history) on the stored object data,
\* whose keys are the expected members.
NoDatabaseCall == [op |-> "none", id |-> Null, returned |-> FALSE]

DatabaseOn(data) == [data |-> data, last |-> NoDatabaseCall, member |-> DOMAIN data]

NewDatabase == DatabaseOn(EmptyMap)

\* The tabs of the target site.
TabIds == {1, 2}

\* A tab whose content script has not started: let highlightedChannels = {}.
ClosedTab == [pc |-> "closed", cache |-> EmptyMap, inbox |-> {}]

NoTabs == [sent |-> 0, tab |-> [t \in TabIds |-> ClosedTab]]

\* History: no sync has recorded a lastAPISync yet.
NotSynced == [recorded |-> FALSE, ids |-> {}, removed |-> {}]

\* A write of highlightedChannels completes: every other suspended handler
\* that has read the map now holds a stale copy (history).
Overtaken(s) ==
    [r \in Slots |->
        IF r # s /\ tasks[r].action # "idle" /\ tasks[r].pc = "set"
        THEN [tasks[r] EXCEPT !.stale = TRUE]
        ELSE IF r = s THEN Idle ELSE tasks[r]]

-----------------------------------------------------------------------------
(* Page annotator: data (content.js:8-13, 158-321, 570-660) *)

MaxPasses == 2

MaxAnnotatorEvents == 3

VideoOne == <<"v", "1">>

VideoTwo == <<"v", "2">>

\* A page: channelIds are the identifiers the page's channel links yield,
\* ownerLink tells whether the owner link of a watch page is there.
HomePage ==
    [kind |-> "home", channelIds |-> <<>>, videoId |-> Null, ownerLink |-> FALSE]

ChannelPage(ids) ==
    [kind |-> "channel", channelIds |-> ids, videoId |-> Null, ownerLink |-> FALSE]

VideoPage(ids, v, owner) ==
    [kind |-> "video", channelIds |-> ids, videoId |-> v, ownerLink |-> owner]

Pages ==
    {HomePage, ChannelPage(<<IdHandleFoo>>),
     VideoPage(<<IdHandleFoo>>, VideoOne, TRUE),
     VideoPage(<<IdHandleFoo>>, VideoOne, FALSE),
     VideoPage(<<IdChannel>>, VideoTwo, TRUE)}

\* The maps updateHighlights carries: @Foo is flagged or no channel is.
AnnotatorMaps == {EmptyMap, [k \in {IdHandleFoo} |-> CacheEntry(IdHandleFoo)]}

AllSettings == [showVideoTitle : BOOLEAN, showChannelHeader : BOOLEAN]

DefaultSettings == [showVideoTitle |-> TRUE, showChannelHeader |-> TRUE]

\* The source variants of highlightElement and unhighlightElement:
\* content.js:570-660, part_000:352-426, part_001:89-103, part_002:414-504,
\* part_003:314-404 and part_003:560-634.
Variants == {"content.js", "part_000", "part_001", "part_002", "part_003a", "part_003b"}

\* The variants whose highlightElement looks at settings.showChannelHeader.
GatedVariants == {"content.js", "part_002", "part_003a"}

\* The variants that insert a warning element.
WarningVariants == Variants \ {"part_001"}

StyleProps == {"backgroundColor", "border", "borderRadius", "transition"}

\* The inline styles highlightElement assigns at its end.
HighlightStyles(v) ==
    IF v = "part_001" THEN StyleProps
    ELSE {"backgroundColor", "border", "transition"}

\* The inline styles unhighlightElement resets.
UnhighlightStyles(v) ==
    IF v \in {"part_000", "part_003b"} THEN {"backgroundColor"}
    ELSE IF v = "part_001" THEN {"backgroundColor", "border", "borderRadius"}
    ELSE {"backgroundColor", "border", "transition"}

\* An element without marker class, warning element and inline styles.
Undecorated == [marked |-> FALSE, warnings |-> 0, styles |-> {}]

Elements == [marked : BOOLEAN, warnings : 0..1, styles : SUBSET StyleProps]

NotDecorating == [variant |-> "content.js", step |-> "none", assigned |-> {}]

MaxPopupEvents == 3

\* let settings = {showVideoTitle: true, showChannelHeader: true,
\* showSidebar: true}
PopupSettingNames == {"showVideoTitle", "showChannelHeader", "showSidebar"}

PopupDefaultSettings == [n \in PopupSettingNames |-> TRUE]

\* The popup opened on a tab whose URL gives the channel identifier id.
PopupOn(id) ==
    [settings |-> PopupDefaultSettings, currentChannelId |-> id,
     resolved |-> TRUE, wrote |-> {}, sent |-> {}]

\* The popup before getCurrentChannelInfo has run.
PopupUnresolved == [PopupOn(Null) EXCEPT !.resolved = FALSE]

MaxWaits == 2

\* The calls of waitForElement: the selector and the timeout in seconds
\* (content.js:172, 326, 330).
WaitCalls ==
    {[selector |-> "header", timeout |-> 3],
     [selector |-> "ytd-watch-metadata", timeout |-> 5],
     [selector |-> "#owner", timeout |-> 5]}

\* No waitForElement call yet; present tells whether an element matching the
\* selector is in the document.
NotWaitingOn(call, present) ==
    [pc |-> "idle", call |-> call, value |-> "none", observing |-> FALSE,
     timer |-> FALSE, elapsed |-> 0, present |-> present, appeared |-> FALSE,
     calls |-> 0]

NotWaiting == NotWaitingOn([selector |-> "header", timeout |-> 3], FALSE)

\* resolve(v) on a promise that is settled replaces its value.
ResolveAgain(w, v) == [w EXCEPT !.pc = "resolved", !.value = v]

\* resolve(v): the first call settles the promise, a later one does nothing.
Resolve(w, v) ==
    IF w.pc = "pending" THEN [w EXCEPT !.pc = "resolved", !.value = v] ELSE w

MaxSidebarEvents == 3

IdHandleFooBar == <<"@", "F", "o", "o", "_", "B", "a", "r">>

\* The maps of the sidebar variant: a handle is flagged, a platform id is, or
\* no channel is.
SidebarMaps ==
    {EmptyMap, [k \in {IdHandleFooBar} |-> CacheEntry(IdHandleFooBar)],
     [k \in {IdChannel} |-> CacheEntry(IdChannel)]}

\* The channel names sidebar items display.
SidebarNames ==
    {<<>>, <<"F", "o", "o">>, <<"F", "O", "O", "_", "B", "A", "R">>,
     <<"F", "o", "o", "B", "a", "r">>, <<"u", "c", "1">>,
     <<"O", "t", "h", "e", "r">>}

\* The places of the sidebar list.
ItemIds == {"first", "second"}

\* The items the host page inserts: with a channel name element and a name,
\* or without the element.
SidebarInputs ==
    [name : SidebarNames, named : {TRUE}] \cup [name : {<<>>}, named : {FALSE}]

NoItem == [present |-> FALSE]

\* A sidebar item the host page has just inserted; named tells whether it has
\* a channel name element.
NewItem(name, named) ==
    [present |-> TRUE, name |-> name, named |-> named, warning |-> FALSE,
     border |-> FALSE, processed |-> FALSE, map |-> EmptyMap]

SidebarUnused ==
    [items |-> [i \in ItemIds |-> NoItem], highlightTimeout |-> FALSE,
     ownTrigger |-> FALSE, sidebarTimers |-> 0, newVideosTimer |-> FALSE,
     observing |-> FALSE]

\* The match of a displayed channel name against the stored keys
\* (part_000:275-298).
SidebarMatches(name, channels) ==
    \E key \in DOMAIN channels :
       \/ /\ startsWith(key, <<"@">>)
          /\ LET handleWithoutAt == toLowerCase(SubSeq(key, 2, Len(key)))
                 lower == toLowerCase(name)
             IN \/ lower = handleWithoutAt
                \/ removeUnderscores(lower) = removeUnderscores(handleWithoutAt)
                \/ includes(handleWithoutAt, lower)
       \/ toLowerCase(name) = toLowerCase(key)

\* highlightedChannels[channelId] for the channel link of the page.
KeyFlagged(loc, channels) ==
    loc.channelIds # <<>> /\ loc.channelIds[1] \in DOMAIN channels

\* Every pass of the annotator sets the debounce timer, as with an observer
\* that is told of the style and class changes too.
OwnTriggerAlways(added, removed) == TRUE

\* The page observer's callback after the annotator's own mutations
\* (part_000:430-447): a batch that adds one of the annotator's nodes is
\* ignored; a batch of removals alone sets the debounce timer.
OwnTrigger(added, removed) == removed /\ ~added


NoWarning == [warnings |-> 0]

PassSlots == 1..MaxPasses

NoPass == [pc |-> "idle"]

LogReset == [done |-> 0, header |-> 0, title |-> 0, last |-> "none", flipped |-> FALSE]

\* element.querySelector('.yt-ai-warning') and remove(): the first warning
\* element goes.
RemoveFirstWarning(n) == IF n > 0 THEN n - 1 ELSE 0

\* unhighlightElement of variant v.
unhighlightElementIn(v, element) ==
    [marked |-> FALSE,
     warnings |-> IF v \in WarningVariants
                  THEN RemoveFirstWarning(element.warnings)
                  ELSE element.warnings,
     styles |-> element.styles \ UnhighlightStyles(v)]

\* highlightElement of variant v reaches its end and assigns the styles.
ReachesStyles(v, element, showChannelHeader) ==
    /\ v \in GatedVariants => showChannelHeader
    /\ v \in WarningVariants => element.warnings = 0

\* highlightElement of variant v; named tells whether a channel name
\* element is found in the element.
highlightElementIn(v, element, showChannelHeader, named) ==
    IF v \in GatedVariants /\ ~showChannelHeader
    THEN [marked |-> FALSE,
          warnings |-> RemoveFirstWarning(element.warnings),
          styles |-> element.styles \ {"backgroundColor", "border"}]
    ELSE IF ~ReachesStyles(v, element, showChannelHeader)
    THEN [element EXCEPT !.marked = TRUE]
    ELSE [marked |-> TRUE,
          warnings |-> IF v \in WarningVariants /\ named THEN 1
                       ELSE element.warnings,
          styles |-> element.styles \cup HighlightStyles(v)]

unhighlightElement(element) == unhighlightElementIn("content.js", element)

highlightElement(element, showChannelHeader) ==
    highlightElementIn("content.js", element, showChannelHeader, TRUE)

\* The loop over the collected channelIds: one of them is flagged.
AnyFlagged(ids, channels) ==
    \E i \in DOMAIN ids : isChannelFlagged(ids[i], channels)

\* A content script that has not run a pass.
InitAnnotator(maps, allSettings, pages) ==
    /\ highlightedChannels \in maps
    /\ settings \in allSettings
    /\ location \in pages
    /\ header = Undecorated
    /\ title = NoWarning
    /\ currentVideoId = Null
    /\ passes = [s \in PassSlots |-> NoPass]
    /\ decoration = NotDecorating
    /\ popup = PopupUnresolved
    /\ wait = NotWaiting
    /\ sidebar = SidebarUnused
    /\ received = <<>>
    /\ synced = NotSynced
    /\ tabs = NoTabs
    /\ database = NewDatabase
    /\ passLog = LogReset

InitAnnotatorUnused ==
    /\ settings = DefaultSettings
    /\ location = HomePage
    /\ header = Undecorated
    /\ title = NoWarning
    /\ currentVideoId = Null
    /\ passes = [s \in PassSlots |-> NoPass]
    /\ decoration = NotDecorating
    /\ popup = PopupUnresolved
    /\ wait = NotWaiting
    /\ sidebar = SidebarUnused
    /\ received = <<>>
    /\ synced = NotSynced
    /\ tabs = NoTabs
    /\ database = NewDatabase
    /\ passLog = LogReset

-----------------------------------------------------------------------------
(* Background coordinator: the state before the first event *)

\* A request or event is taken up.
Request == requestsLeft > 0 /\ requestsLeft' = requestsLeft - 1

InitCoordinatorStored(budget, voteMaps) ==
    /\ storage \in [highlightedChannels : {EmptyMap}, channelVotes : voteMaps,
                     warningSettings : {"unset"},
                     lastAPISync : {NoTime}, apiSyncEnabled : {"unset"}]
    /\ now = 1
    /\ tasks = [s \in Slots |-> Idle]
    /\ notifySeq = 0
    /\ notified = EmptyMap
    /\ requestsLeft = budget
    /\ hist = NoWrite
    /\ lastGet = [at |-> NoTime, merged |-> FALSE, mergedBefore |-> NoTime]

InitCoordinator(budget) == InitCoordinatorStored(budget, {EmptyMap})

InitResolverUnused ==
    /\ url = Null
    /\ extracted = NotCalled
    /\ channelId = Null
    /\ highlightedChannels = EmptyMap
    /\ flagged = NotChecked
    /\ InitAnnotatorUnused

-----------------------------------------------------------------------------
(* Voting widget: data (unnamed/part_004:486-1125) *)

\* CACHE_DURATION, in hours.
CacheDurationHours == 24

\* let voteThreshold = 10
DefaultThreshold == 10

MaxCalls == 2

MaxButtons == 2

MaxWidgetEvents == 4

MaxCacheEvents == 2

MaxThresholdEvents == 3

\* Vote counts the server answers with (data.votes || 0).
ServerVotes == {0, 1, 2}

\* Thresholds the user has set (warningSettings.voteThreshold).
Thresholds == {1, 2}

\* What earlier sessions and syncs left in channelVotes and in
\* channelVotesCache when the page loads at hour 1.
StoredVoteMaps ==
    {EmptyMap, [id \in {IdHandleFoo} |-> 1], [id \in ChannelIds |-> 1]}

StoredCaches ==
    {EmptyMap, [id \in {IdChannel} |-> [votes |-> 2, timestamp |-> 1]]}

CallSlots == 1..MaxCalls

ButtonIds == 1..MaxButtons

NoCall == [fn |-> "idle"]

NoButton == [state |-> "absent"]

\* StoredVotes that finds no count.
StoredVotesForgotten(votes, id) == 0

\* votes[channelId] || 0 on the stored channelVotes
StoredVotes(votes, id) == IF id \in DOMAIN votes THEN votes[id] ELSE 0

\* OptimisticCount that adds nothing.
OptimisticCountSame(votes, id) == StoredVotes(votes, id)

\* upvoteChannel's fallback, line 650: (votes[channelId] || 0) + 1
OptimisticCount(votes, id) == StoredVotes(votes, id) + 1

\* CacheEntryOf that stores no count.
CacheEntryOfNothing(votes, timestamp) == [votes |-> 0, timestamp |-> timestamp]

\* votesCache[channelId] = { votes, timestamp }
CacheEntryOf(votes, timestamp) == [votes |-> votes, timestamp |-> timestamp]

\* CacheHit that never uses the cache.
CacheHitNever(cache, id, t) == FALSE

\* The cache check of getChannelVotesFromAPI: an entry younger than
\* CACHE_DURATION.
CacheHit(cache, id, t) ==
    /\ id \in DOMAIN cache
    /\ t - cache[id].timestamp < CacheDurationHours

\* hasVotedThisSession(channelId)
hasVotedThisSession(id) == id \in votedChannels

\* markAsVoted(channelId)
markAsVoted(id) == votedChannels \cup {id}

\* History: getChannelVotesFromAPI or upvoteChannel returns `value` for
\* channel `id` after sending `sent` requests; lookup tells how the value
\* was obtained.
Returned(fn, id, value, sent, how) ==
    [fn |-> fn, channelId |-> id, value |-> value, sent |-> sent, how |-> how,
     seq |-> 1 - ret.seq]

\* History: the function returns; a count answered by the server, taken
\* from the cache or made up by upvoteChannel's fallback is recorded for the
\* channel by the caller or the function itself.
Returns(fn, id, value, sent, how) ==
    /\ ret' = Returned(fn, id, value, sent, how)
    /\ known' = IF how \in {"fetched", "cached"}
                   \/ (fn = "upvoteChannel" /\ how # "threw")
                THEN [known EXCEPT ![id] = value]
                ELSE known

NoReturn ==
    [fn |-> "none", channelId |-> Null, value |-> NoVotes, sent |-> 0,
     how |-> "none", seq |-> 0]

\* The content script of a freshly loaded channel page.
InitWidget(thresholds, caches) ==
    /\ votesCache \in caches
    /\ votedChannels = {}
    /\ contextValid = TRUE
    /\ votingEnabled = TRUE
    /\ voteThreshold \in thresholds
    /\ page = IdChannel
    /\ timerPending = TRUE
    /\ calls = [s \in CallSlots |-> NoCall]
    /\ buttons = [b \in ButtonIds |-> NoButton]
    /\ dom = <<>>
    /\ outbox = <<>>
    /\ sentVotes = [id \in ChannelIds |-> 0]
    /\ ret = NoReturn
    /\ known = [id \in ChannelIds |->
                  IF id \in DOMAIN storage.channelVotes
                  THEN storage.channelVotes[id] ELSE NoVotes]

InitWidgetUnused == InitWidget({DefaultThreshold}, {EmptyMap})

-----------------------------------------------------------------------------
(* Background coordinator: handlers *)

\* chrome.runtime.onInstalled (install, extension update, browser update): the
\* service worker has just started, so no handler is suspended. The set
\* completes and the forced fetch issues its GET.
OnInstalled ==
    /\ Request
    /\ \A s \in Slots : tasks[s] = Idle
    /\ storage' = [storage EXCEPT !.highlightedChannels = EmptyMap,
                                  !.apiSyncEnabled = "true"]
    /\ tasks' = Spawn(Fetching("install"))
    /\ hist' = Logged("onInstalled", Null, DOMAIN storage.highlightedChannels, TRUE)
    /\ NoNotify
    /\ UNCHANGED <<now, lastGet>>

\* scheduledSyncCheck(): at worker start and every hour. shouldSync() reads
\* storage and fetchFlaggedChannelsFromAPI(true) issues the GET at once.
ScheduledSyncCheck ==
    /\ Request
    /\ IF shouldSync(storage, now)
       THEN /\ HasFreeSlot
            /\ tasks' = Spawn(Fetching("scheduled"))
            /\ lastGet' = GetIssuedNow
       ELSE UNCHANGED <<tasks, lastGet>>
    /\ NoNotify
    /\ UNCHANGED <<storage, now, hist>>

\* fetchFlaggedChannelsFromAPI(false): the gate, then the GET.
FetchNonForced ==
    /\ Request
    /\ IF PassesFetchGate(storage, now)
       THEN /\ HasFreeSlot
            /\ tasks' = Spawn(Fetching("nonforced"))
            /\ lastGet' = GetIssuedNow
       ELSE UNCHANGED <<tasks, lastGet>>
    /\ NoNotify
    /\ UNCHANGED <<storage, now, hist>>

\* refreshFromAPI: fetchFlaggedChannelsFromAPI(true); answered when it ends.
RefreshFromAPI ==
    /\ Request
    /\ HasFreeSlot
    /\ tasks' = Spawn(Fetching("refresh"))
    /\ NoNotify
    /\ UNCHANGED <<storage, now, hist, lastGet>>

\* toggleAPISync{enabled}: the set completes, a forced fetch starts if
\* enabled, and the request is answered.
ToggleAPISync(enabled) ==
    /\ Request
    /\ storage' = [storage EXCEPT !.apiSyncEnabled = IF enabled THEN "true" ELSE "false"]
    /\ IF enabled
       THEN HasFreeSlot /\ tasks' = Spawn(Fetching("toggle"))
       ELSE UNCHANGED tasks
    /\ NoNotify
    /\ UNCHANGED <<now, hist, lastGet>>

\* FetchFailed that records the attempt as a sync.
FetchFailedStamped(s) ==
    /\ tasks[s].action = "sync" /\ tasks[s].pc = "fetching"
    /\ tasks' = [tasks EXCEPT ![s] = Idle]
    /\ storage' = [storage EXCEPT !.lastAPISync = now]
    /\ NoNotify
    /\ UNCHANGED <<now, requestsLeft, hist, lastGet>>

\* The GET fails (network error, non-OK status, unreadable body): the catch
\* block logs and the call returns.
FetchFailed(s) ==
    /\ tasks[s].action = "sync" /\ tasks[s].pc = "fetching"
    /\ tasks' = [tasks EXCEPT ![s] = Idle]
    /\ NoNotify
    /\ UNCHANGED <<storage, now, requestsLeft, hist, lastGet>>

\* The GET answers `remote`; storage.get(['highlightedChannels',
\* 'channelVotes']) returns and the merge is computed; the set is issued.
FetchSucceeded(s, remote) ==
    /\ tasks[s].action = "sync" /\ tasks[s].pc = "fetching"
    /\ tasks' = [tasks EXCEPT ![s] =
          [action |-> "sync", pc |-> "set", origin |-> tasks[s].origin,
           issuedAt |-> tasks[s].issuedAt,
           channelId |-> Null,
           remote |-> remote,
           channels |-> MergeChannels(storage.highlightedChannels, remote, now),
           votes |-> MergeVotes(storage.channelVotes, remote),
           syncedAt |-> now,
           before |-> DOMAIN storage.highlightedChannels,
           stale |-> FALSE]]
    /\ NoNotify
    /\ UNCHANGED <<storage, now, requestsLeft, hist, lastGet>>

\* The merge's set completes; notifyAllTabs; the call returns.
MergeSet(s) ==
    /\ tasks[s].action = "sync" /\ tasks[s].pc = "set"
    /\ storage' = [storage EXCEPT !.highlightedChannels = tasks[s].channels,
                                  !.channelVotes = tasks[s].votes,
                                  !.lastAPISync = tasks[s].syncedAt]
    /\ Notify(tasks[s].channels)
    /\ tasks' = Overtaken(s)
    /\ hist' = Logged("sync", Null, tasks[s].before, ~tasks[s].stale)
    /\ lastGet' = IF tasks[s].origin \in {"scheduled", "nonforced"}
                     /\ tasks[s].issuedAt = lastGet.at
                  THEN [lastGet EXCEPT !.merged = TRUE]
                  ELSE lastGet
    /\ UNCHANGED <<now, requestsLeft>>

\* A handler that read the map, computed `channels` and issued the set.
Writing(action, id, channels) ==
    [action |-> action, pc |-> "set", channelId |-> id, channels |-> channels,
     before |-> DOMAIN storage.highlightedChannels, stale |-> FALSE]

\* The set of a suspended handler completes: it notifies the tabs.
SetCompletes(s, action) ==
    /\ tasks[s].action = action /\ tasks[s].pc = "set"
    /\ storage' = [storage EXCEPT !.highlightedChannels = tasks[s].channels]
    /\ Notify(tasks[s].channels)
    /\ tasks' = Overtaken(s)
    /\ hist' = Logged(action, tasks[s].channelId, tasks[s].before, ~tasks[s].stale)
    /\ UNCHANGED <<now, requestsLeft, lastGet>>

\* toggleChannel: the storage.get callback.
ToggleChannelGet(id, name) ==
    /\ Request
    /\ HasFreeSlot
    /\ tasks' = Spawn(Writing("toggleChannel", id,
                   ToggledChannels(storage.highlightedChannels, id, name,
                                   HandleOf(id), now)))
    /\ NoNotify
    /\ UNCHANGED <<storage, now, hist, lastGet>>

ToggleChannelSet(s) ==
    /\ SetCompletes(s, "toggleChannel")

\* addChannel: the storage.get callback.
AddChannelRead(id, name, votes) ==
    /\ IF id \notin DOMAIN storage.highlightedChannels
       THEN /\ HasFreeSlot
            /\ tasks' = Spawn(Writing("addChannel", id,
                           Put(storage.highlightedChannels, id,
                               VotedEntry(id, name, votes, now))))
       ELSE UNCHANGED tasks
    /\ NoNotify
    /\ UNCHANGED <<storage, now, hist, lastGet>>

\* addChannel requested by the run's next request.
AddChannelGet(id, name, votes) ==
    /\ Request
    /\ AddChannelRead(id, name, votes)

AddChannelSet(s) ==
    /\ SetCompletes(s, "addChannel")

\* clearAll: a blind set, then notifyAllTabs({}).
ClearAll ==
    /\ Request
    /\ storage' = [storage EXCEPT !.highlightedChannels = EmptyMap]
    /\ Notify(EmptyMap)
    /\ tasks' = Overtaken(0)
    /\ hist' = Logged("clearAll", Null, DOMAIN storage.highlightedChannels, TRUE)
    /\ UNCHANGED <<now, lastGet>>

ClearAutoAddedGet ==
    /\ Request
    /\ HasFreeSlot
    /\ tasks' = Spawn(Writing("clearAutoAdded", Null,
                   KeepManual(storage.highlightedChannels)))
    /\ NoNotify
    /\ UNCHANGED <<storage, now, hist, lastGet>>

ClearAutoAddedSet(s) ==
    /\ SetCompletes(s, "clearAutoAdded")

ClearManualAddedGet ==
    /\ Request
    /\ HasFreeSlot
    /\ tasks' = Spawn(Writing("clearManualAdded", Null,
                   KeepAutoAdded(storage.highlightedChannels)))
    /\ NoNotify
    /\ UNCHANGED <<storage, now, hist, lastGet>>

ClearManualAddedSet(s) ==
    /\ SetCompletes(s, "clearManualAdded")

\* An hour passes. No handler stays suspended in a storage call or in the
\* GET across the hour.
Tick ==
    /\ \A s \in Slots : tasks[s] = Idle
    /\ now' = now + 1
    /\ NoNotify
    /\ UNCHANGED <<storage, tasks, requestsLeft, hist, lastGet>>

-----------------------------------------------------------------------------
(* Voting widget: handlers (unnamed/part_004:541-973, 1062-1124) *)

HasFreeCall == \E s \in CallSlots : calls[s] = NoCall

FreeCall == CHOOSE s \in CallSlots : calls[s] = NoCall

HasFreeButton == \E b \in ButtonIds : buttons[b] = NoButton

FreeButton == CHOOSE b \in ButtonIds : buttons[b] = NoButton

\* A threshold that a count equal to it does not reach.
ThresholdReachedAbove(count, threshold) == count > threshold

\* voteCount >= voteThreshold (lines 768 and 874).
ThresholdReached(count, threshold) == count >= threshold

\* The button createAndInsertButton builds: disabled when the channel was
\* voted for in this session.
NewButton(id, count, hasVoted) ==
    [state |-> IF hasVoted THEN "voted" ELSE "unvoted", channelId |-> id,
     count |-> count, disabled |-> hasVoted, error |-> FALSE]

\* A button that is neither in the page nor held by a click handler is gone.
Collect(bs, d, cs) ==
    [b \in ButtonIds |->
        IF /\ b \notin Range(d)
           /\ \A s \in CallSlots : cs[s] = NoCall \/ cs[s].fn # "click" \/ cs[s].button # b
        THEN NoButton ELSE bs[b]]

\* removeVotingButton(): querySelector finds the first vote button.
removeVotingButton(d) == IF d = <<>> THEN d ELSE Tail(d)

\* createAndInsertButton, lines 911-919: the button goes in right after the
\* first action of the container, before the vote buttons already there.
InsertButton(s, d, id, count, hasVoted) ==
    /\ HasFreeButton
    /\ dom' = <<FreeButton>> \o d
    /\ calls' = [calls EXCEPT ![s] = NoCall]
    /\ buttons' = Collect([buttons EXCEPT ![FreeButton] = NewButton(id, count, hasVoted)],
                          <<FreeButton>> \o d, calls')
    /\ UNCHANGED outbox

\* The render ends without a button.
NoButtonInserted(s, d) ==
    /\ dom' = d
    /\ calls' = [calls EXCEPT ![s] = NoCall]
    /\ buttons' = Collect(buttons, d, calls')

\* createAndInsertButton from line 760 on, with voteCount = count: the
\* count is saved, then the threshold check asks the background for the
\* flagged map, or the button is inserted.
AfterLookup(s, d, id, count) ==
    /\ storage' = [storage EXCEPT !.channelVotes = Put(@, id, count)]
    /\ IF ThresholdReached(count, voteThreshold)
       THEN IF contextValid
            THEN /\ calls' = [calls EXCEPT ![s] =
                       [fn |-> "render", pc |-> "flagcheck", channelId |-> id,
                        voteCount |-> count, hasVoted |-> hasVotedThisSession(id)]]
                 /\ dom' = d
                 /\ buttons' = Collect(buttons, d, calls')
                 /\ UNCHANGED outbox
            ELSE NoButtonInserted(s, d) /\ UNCHANGED outbox
       ELSE InsertButton(s, d, id, count, hasVotedThisSession(id))

\* addVotingButton(): the old button is removed and, on a channel page with
\* voting enabled and the actions container there, createAndInsertButton
\* starts with getChannelVotesFromAPI. With the context invalidated the
\* stored count is read, which the browser may refuse (storageWorks).
addVotingButton(enabled, container, storageWorks) ==
    LET d == removeVotingButton(dom)
        s == FreeCall
    IN /\ HasFreeCall
       /\ IF ~enabled \/ page = Null \/ ~container
          THEN /\ NoButtonInserted(s, d)
               /\ UNCHANGED <<storage, votesCache, outbox, ret, known>>
          ELSE IF ~contextValid
          THEN IF storageWorks
               THEN /\ Returns("getChannelVotesFromAPI", page,
                                       StoredVotes(storage.channelVotes, page), 0,
                                       "invalidated")
                    /\ AfterLookup(s, d, page, StoredVotes(storage.channelVotes, page))
                    /\ UNCHANGED votesCache
               ELSE /\ Returns("getChannelVotesFromAPI", page, 0, 0,
                                       "invalidated")
                    /\ NoButtonInserted(s, d)
                    /\ UNCHANGED <<storage, votesCache, outbox>>
          ELSE IF CacheHit(votesCache, page, now)
          THEN /\ Returns("getChannelVotesFromAPI", page,
                                  votesCache[page].votes, 0, "cached")
               /\ AfterLookup(s, d, page, votesCache[page].votes)
               /\ UNCHANGED votesCache
          ELSE /\ calls' = [calls EXCEPT ![s] =
                     [fn |-> "render", pc |-> "lookup", channelId |-> page,
                      cacheRead |-> votesCache, at |-> now]]
               /\ dom' = d
               /\ buttons' = Collect(buttons, d, calls')
               /\ UNCHANGED <<storage, votesCache, outbox, ret, known>>

\* The timer initVoting set fires (lines 1091-1094).
TimerFires(container, storageWorks) ==
    /\ Request
    /\ timerPending
    /\ timerPending' = FALSE
    /\ addVotingButton(votingEnabled, container, storageWorks)
    /\ UNCHANGED <<votedChannels, contextValid, votingEnabled, voteThreshold,
                   page, sentVotes>>
    /\ NoNotify
    /\ UNCHANGED <<now, tasks, hist, lastGet>>

\* The updateSettings listener (lines 1101-1115); a message reaches only a
\* content script whose context is valid.
UpdateSettings(showVoting, container) ==
    /\ UNCHANGED timerPending
    /\ Request
    /\ contextValid
    /\ votingEnabled' = showVoting
    /\ addVotingButton(showVoting, container, TRUE)
    /\ UNCHANGED <<votedChannels, contextValid, voteThreshold, page, sentVotes>>
    /\ NoNotify
    /\ UNCHANGED <<now, tasks, hist, lastGet>>

\* initVoting that does not look at the extension context.
TimerAfterInitUnchecked(valid, id, pending) == id # Null

\* initVoting (lines 1062-1098): with the context invalidated it returns at
\* once and the timer is as it was; else the pending timer is cleared and, on
\* a channel page, a new one is set.
TimerAfterInit(valid, id, pending) == IF valid THEN id # Null ELSE pending

\* yt-navigate-finish (lines 1119-1124): the button is removed and
\* initVoting clears the timer and, on a channel page, sets it again; with
\* the context invalidated initVoting returns before that.
Navigate(id) ==
    /\ Request
    /\ page' = id
    /\ timerPending' = TimerAfterInit(contextValid, id, timerPending)
    /\ dom' = removeVotingButton(dom)
    /\ buttons' = Collect(buttons, dom', calls)
    /\ ret' = Returned("initVoting", id, NoVotes, 0,
                       IF ~contextValid THEN "invalidated"
                       ELSE IF id = Null THEN "no channel page" ELSE "timer")
    /\ UNCHANGED <<votesCache, votedChannels, contextValid, votingEnabled,
                   voteThreshold, calls, outbox, sentVotes, known>>
    /\ NoNotify
    /\ UNCHANGED <<storage, now, tasks, hist, lastGet>>

\* The extension is reloaded or updated under the page; this happens while
\* no widget call is suspended.
InvalidateContext ==
    /\ UNCHANGED timerPending
    /\ Request
    /\ contextValid
    /\ \A s \in CallSlots : calls[s] = NoCall
    /\ contextValid' = FALSE
    /\ UNCHANGED <<votesCache, votedChannels, votingEnabled, voteThreshold, page,
                   calls, buttons, dom, outbox, sentVotes, ret, known>>
    /\ NoNotify
    /\ UNCHANGED <<storage, now, tasks, hist, lastGet>>

\* getChannelVotesFromAPI, lines 576-600: the getChannelVotes request is
\* answered with success and `votes`, or fails.
LookupAnswered(s, success, votes) ==
    LET id == calls[s].channelId
        count == IF success THEN votes ELSE StoredVotes(storage.channelVotes, id)
    IN /\ UNCHANGED timerPending
       /\ calls[s] # NoCall /\ calls[s].fn = "render" /\ calls[s].pc = "lookup"
       /\ votesCache' = IF success
                        THEN Put(calls[s].cacheRead, id, CacheEntryOf(votes, calls[s].at))
                        ELSE votesCache
       /\ Returns("getChannelVotesFromAPI", id, count, 1,
                          IF success THEN "fetched" ELSE "failed")
       /\ AfterLookup(s, dom, id, count)
       /\ UNCHANGED <<votedChannels, contextValid, votingEnabled, voteThreshold,
                      page, sentVotes>>
       /\ NoNotify
       /\ UNCHANGED <<now, tasks, requestsLeft, hist, lastGet>>

\* The message addChannelToWarningList sends.
AddChannelMessage(id, count) ==
    [channelId |-> id, channelName |-> "Title", votes |-> count]

\* createAndInsertButton, lines 773-784: getHighlightedChannels is answered
\* with the stored map.
FlagCheckAnswered(s) ==
    LET id == calls[s].channelId
    IN /\ UNCHANGED timerPending
       /\ calls[s] # NoCall /\ calls[s].fn = "render" /\ calls[s].pc = "flagcheck"
       /\ IF id \notin DOMAIN storage.highlightedChannels
          THEN /\ outbox' = Append(outbox, AddChannelMessage(id, calls[s].voteCount))
               /\ NoButtonInserted(s, dom)
          ELSE InsertButton(s, dom, id, calls[s].voteCount, calls[s].hasVoted)
       /\ UNCHANGED <<votesCache, votedChannels, contextValid, votingEnabled,
                      voteThreshold, page, sentVotes, ret, known>>
       /\ NoNotify
       /\ UNCHANGED <<storage, now, tasks, requestsLeft, hist, lastGet>>

\* The click handler after upvoteChannel returned newCount (lines 853-877):
\* the channel is marked, the button shows the count, and at the threshold
\* addChannelToWarningList sends addChannel. With the context invalidated
\* that send throws and the catch block restores the button.
AfterVote(b, id, newCount) ==
    /\ votedChannels' = markAsVoted(id)
    /\ IF ThresholdReached(newCount, voteThreshold) /\ ~contextValid
       THEN /\ buttons' = Collect([buttons EXCEPT ![b] =
                    [state |-> "unvoted", channelId |-> id, count |-> @.count,
                     disabled |-> FALSE, error |-> TRUE]], dom, calls')
            /\ UNCHANGED outbox
       ELSE /\ buttons' = Collect([buttons EXCEPT ![b] =
                    [state |-> "voted", channelId |-> id, count |-> newCount,
                     disabled |-> TRUE, error |-> FALSE]], dom, calls')
            /\ outbox' = IF ThresholdReached(newCount, voteThreshold)
                         THEN Append(outbox, AddChannelMessage(id, newCount))
                         ELSE outbox

\* A click on vote button b (lines 824-851). upvoteChannel sends voteChannel;
\* with the context invalidated it throws at once and its catch block
\* increments the stored count, if the browser lets it (storageWorks).
Click(b, storageWorks) ==
    LET id == buttons[b].channelId
        n == OptimisticCount(storage.channelVotes, id)
    IN /\ UNCHANGED timerPending
       /\ Request
       /\ b \in Range(dom)
       /\ ~buttons[b].disabled
       /\ IF hasVotedThisSession(id)
          THEN UNCHANGED <<storage, votedChannels, calls, buttons, outbox,
                           sentVotes, ret, known>>
          ELSE IF contextValid
          THEN /\ HasFreeCall
               /\ calls' = [calls EXCEPT ![FreeCall] =
                     [fn |-> "click", pc |-> "vote", channelId |-> id, button |-> b]]
               /\ buttons' = [buttons EXCEPT ![b].state = "voting",
                                             ![b].disabled = TRUE]
               /\ sentVotes' = [sentVotes EXCEPT ![id] = @ + 1]
               /\ UNCHANGED <<storage, votedChannels, outbox, ret, known>>
          ELSE IF storageWorks
          THEN /\ storage' = [storage EXCEPT !.channelVotes = Put(@, id, n)]
               /\ Returns("upvoteChannel", id, n, 0, "invalidated")
               /\ calls' = calls
               /\ AfterVote(b, id, n)
               /\ UNCHANGED sentVotes
          ELSE /\ Returns("upvoteChannel", id, NoVotes, 0, "threw")
               /\ buttons' = [buttons EXCEPT ![b].error = TRUE]
               /\ UNCHANGED <<storage, votedChannels, calls, outbox, sentVotes>>
       /\ UNCHANGED <<votesCache, contextValid, votingEnabled, voteThreshold,
                      page, dom>>
       /\ NoNotify
       /\ UNCHANGED <<now, tasks, hist, lastGet>>

\* upvoteChannel, lines 623-653: voteChannel is answered with success and
\* `votes`, or fails; then the click handler goes on.
VoteAnswered(s, success, votes) ==
    LET id == calls[s].channelId
        newCount == IF success THEN votes
                    ELSE OptimisticCount(storage.channelVotes, id)
    IN /\ UNCHANGED timerPending
       /\ calls[s] # NoCall /\ calls[s].fn = "click" /\ calls[s].pc = "vote"
       /\ storage' = [storage EXCEPT !.channelVotes = Put(@, id, newCount)]
       /\ votesCache' = IF success
                        THEN Put(votesCache, id, CacheEntryOf(votes, now))
                        ELSE votesCache
       /\ Returns("upvoteChannel", id, newCount, 1,
                          IF success THEN "voted" ELSE "failed")
       /\ calls' = [calls EXCEPT ![s] = NoCall]
       /\ AfterVote(calls[s].button, id, newCount)
       /\ UNCHANGED <<contextValid, votingEnabled, voteThreshold, page, dom,
                      sentVotes>>
       /\ NoNotify
       /\ UNCHANGED <<now, tasks, requestsLeft, hist, lastGet>>

\* The error indicator is removed after two seconds (lines 905-907).
ErrorTimeout(b) ==
    /\ UNCHANGED timerPending
    /\ buttons[b] # NoButton
    /\ buttons[b].error
    /\ buttons' = [buttons EXCEPT ![b].error = FALSE]
    /\ UNCHANGED <<votesCache, votedChannels, contextValid, votingEnabled,
                   voteThreshold, page, calls, dom, outbox, sentVotes, ret, known>>
    /\ NoNotify
    /\ UNCHANGED <<storage, now, tasks, requestsLeft, hist, lastGet>>

\* The background takes up an addChannel message of the widget.
AddChannelDelivered ==
    /\ UNCHANGED timerPending
    /\ outbox # <<>>
    /\ outbox' = Tail(outbox)
    /\ AddChannelRead(Head(outbox).channelId, Head(outbox).channelName,
                      Head(outbox).votes)
    /\ UNCHANGED <<votesCache, votedChannels, contextValid, votingEnabled,
                   voteThreshold, page, calls, buttons, dom, sentVotes, ret, known>>
    /\ UNCHANGED requestsLeft

\* An hour passes while no widget call is suspended.
WidgetTick ==
    /\ \A s \in CallSlots : calls[s] = NoCall
    /\ Tick
    /\ UNCHANGED widgetVars

-----------------------------------------------------------------------------
(* Page annotator: handlers (content.js:158-567, 663-688, 710-765) *)

HasFreePass == \E s \in PassSlots : passes[s] = NoPass

FreePass == CHOOSE s \in PassSlots : passes[s] = NoPass

\* History: passes in flight when another one starts do not run in
\* succession.
Uncounted(ps) ==
    [s \in PassSlots |->
        IF ps[s] = NoPass THEN NoPass ELSE [ps[s] EXCEPT !.counted = FALSE]]

\* History: a pass that ran alone is counted, the warnings after the first
\* one are kept, and so are the trigger of the last one and whether it
\* changed the flag status of the page's channel.
Completed(log, p, h, t) ==
    IF ~p.counted THEN LogReset
    ELSE IF log.done = 0
    THEN [done |-> 1, header |-> h.warnings, title |-> t.warnings,
          last |-> p.origin, flipped |-> p.flipped]
    ELSE [log EXCEPT !.done = 2, !.last = p.origin, !.flipped = p.flipped]

\* The pass p in slot s ends. The yt-navigate-finish listener then sets the
\* retry timer when the video was not processed (lines 755-761).
EndPass(ps, log, s, p, cur, h, t) ==
    IF p.origin = "navigate" /\ p.isVideoPage /\ cur = Null
    THEN /\ passes' = [ps EXCEPT ![s] = [p EXCEPT !.pc = "retry"]]
         /\ passLog' = log
    ELSE /\ passes' = [ps EXCEPT ![s] = NoPass]
         /\ passLog' = Completed(log, p, h, t)

\* checkVideoPage from its start to its first await (lines 274-321): the
\* warnings of the title are removed, then the settings, the page and the
\* video already processed decide whether it goes on.
CheckVideoPage(ps, log, s, p, st, loc, cur, h) ==
    /\ title' = NoWarning
    /\ currentVideoId' = cur
    /\ IF /\ st.showVideoTitle
          /\ loc.kind = "video"
          /\ loc.videoId # Null
          /\ loc.videoId # cur
       THEN /\ passes' = [ps EXCEPT ![s] = [p EXCEPT !.pc = "video",
                                                      !.videoId = loc.videoId]]
            /\ passLog' = log
       ELSE EndPass(ps, log, s, p, cur, h, NoWarning)

\* applyHighlights is called with the map, settings and page of the
\* caller: on a page that is no watch page, with showChannelHeader, it
\* waits for the channel header; else it goes on to checkVideoPage.
ApplyHighlights(origin, channels, st, loc, cur, t, changed) ==
    LET s == FreePass
        counted == \A x \in PassSlots : passes[x] = NoPass
        log == IF changed \/ ~counted THEN LogReset ELSE passLog
        p == [pc |-> "header", origin |-> origin, isVideoPage |-> loc.kind = "video",
              counted |-> counted, videoId |-> Null,
              flipped |-> /\ origin = "updateHighlights"
                          /\ AnyFlagged(loc.channelIds, channels)
                               # AnyFlagged(loc.channelIds, highlightedChannels)]
    IN /\ Request
       /\ HasFreePass
       /\ highlightedChannels' = channels
       /\ settings' = st
       /\ location' = loc
       /\ IF loc.kind # "video" /\ st.showChannelHeader
          THEN /\ passes' = [Uncounted(passes) EXCEPT ![s] = p]
               /\ passLog' = log
               /\ currentVideoId' = cur
               /\ title' = t
          ELSE CheckVideoPage(Uncounted(passes), log, s, p, st, loc, cur, header)
       /\ UNCHANGED <<header, decoration, popup, wait, sidebar, received, synced, tabs, database, url, extracted, channelId, flagged>>
       /\ NoNotify
       /\ UNCHANGED <<storage, now, tasks, hist, lastGet>>
       /\ UNCHANGED widgetVars

\* onMessage updateHighlights (lines 665-669); init's first pass is the same
\* with the map it loaded.
UpdateHighlights(channels) ==
    ApplyHighlights("updateHighlights", channels, settings, location, currentVideoId,
                    title, channels # highlightedChannels)

\* onMessage updateSettings (lines 679-685).
AnnotatorUpdateSettings(st) ==
    ApplyHighlights("updateSettings", highlightedChannels, st, location,
                    currentVideoId, title, st # settings)

\* yt-navigate-start and yt-navigate-finish (lines 710-765): the warnings of
\* the title are removed, a new video resets currentVideoId, and the pass
\* runs on the new page.
NavigateFinish(loc) ==
    ApplyHighlights("navigate", highlightedChannels, settings, loc,
                    IF loc.kind = "video" /\ loc.videoId # currentVideoId
                    THEN Null ELSE currentVideoId,
                    NoWarning, TRUE)

\* applyHighlights after waitForElement (lines 173-262): a header that is
\* there is unhighlighted, and highlighted when one of the page's channel
\* identifiers is flagged; then checkVideoPage starts.
HeaderWaited(s) ==
    LET h1 == unhighlightElement(header)
        h2 == IF location.kind # "channel" THEN header
              ELSE IF AnyFlagged(location.channelIds, highlightedChannels)
              THEN highlightElement(h1, settings.showChannelHeader)
              ELSE h1
    IN /\ passes[s] # NoPass /\ passes[s].pc = "header"
       /\ header' = h2
       /\ CheckVideoPage(passes, passLog, s, passes[s], settings, location,
                         currentVideoId, h2)
       /\ UNCHANGED <<highlightedChannels, settings, location, decoration, popup, wait, sidebar, received, synced, tabs, database, url,
                      extracted, channelId, flagged>>
       /\ NoNotify
       /\ UNCHANGED <<storage, now, tasks, requestsLeft, hist, lastGet>>
       /\ UNCHANGED widgetVars

\* checkVideoPage after its waits (lines 323-567): without an owner link
\* currentVideoId is reset; with one the video is marked as processed and,
\* when its channel is flagged, the title gets a warning if it has none.
OwnerWaited(s) ==
    LET p == passes[s]
        cur == IF location.ownerLink THEN p.videoId ELSE Null
        t == IF /\ location.ownerLink
                /\ AnyFlagged(location.channelIds, highlightedChannels)
                /\ title.warnings = 0
             THEN [warnings |-> 1] ELSE title
    IN /\ p # NoPass /\ p.pc = "video"
       /\ currentVideoId' = cur
       /\ title' = t
       /\ EndPass(passes, passLog, s, p, cur, header, t)
       /\ UNCHANGED <<highlightedChannels, settings, location, header, decoration, popup, wait, sidebar, received, synced, tabs, database,
                      url, extracted, channelId, flagged>>
       /\ NoNotify
       /\ UNCHANGED <<storage, now, tasks, requestsLeft, hist, lastGet>>
       /\ UNCHANGED widgetVars

\* The retry timer of the yt-navigate-finish listener fires (lines 757-760).
RetryFires(s) ==
    /\ passes[s] # NoPass /\ passes[s].pc = "retry"
    /\ CheckVideoPage(passes, passLog, s, [passes[s] EXCEPT !.origin = "retry"],
                      settings, location, currentVideoId, header)
    /\ UNCHANGED <<highlightedChannels, settings, location, header, decoration, popup, wait, sidebar, received, synced, tabs, database,
                   url, extracted, channelId, flagged>>
    /\ NoNotify
    /\ UNCHANGED <<storage, now, tasks, requestsLeft, hist, lastGet>>
    /\ UNCHANGED widgetVars

-----------------------------------------------------------------------------
(* Spec: the coordinator, every handler and event, under every interleaving *)

Init == InitResolverUnused /\ InitCoordinator(MaxRequests) /\ InitWidgetUnused

\* The handlers of the flagged map and the sync an explicit refresh starts.
MapStep ==
    \/ RefreshFromAPI
    \/ \E s \in Slots : FetchFailed(s)
    \/ \E s \in Slots, remote \in RemoteLists : FetchSucceeded(s, remote)
    \/ \E s \in Slots : MergeSet(s)
    \/ \E id \in ChannelIds, name \in ChannelNames : ToggleChannelGet(id, name)
    \/ \E s \in Slots : ToggleChannelSet(s)
    \/ \E r \in AddRequests : AddChannelGet(r.channelId, r.channelName, r.votes)
    \/ \E s \in Slots : AddChannelSet(s)
    \/ ClearAll
    \/ ClearAutoAddedGet
    \/ \E s \in Slots : ClearAutoAddedSet(s)
    \/ ClearManualAddedGet
    \/ \E s \in Slots : ClearManualAddedSet(s)
    \/ (now < MaxNow /\ Tick)

Next ==
    \/ /\ \/ MapStep
          \/ OnInstalled
          \/ ScheduledSyncCheck
          \/ \E enabled \in BOOLEAN : ToggleAPISync(enabled)
       /\ UNCHANGED <<resolverVars, widgetVars>>

Spec == Init /\ [][Next]_vars

-----------------------------------------------------------------------------
(* SpecMap: the flagged-map handlers and the sync merge *)

NextMap == MapStep /\ UNCHANGED <<resolverVars, widgetVars>>

SpecMap == Init /\ [][NextMap]_vars

-----------------------------------------------------------------------------
(* SpecSync: the sync schedule over more than a day *)

InitSync ==
    InitResolverUnused /\ InitCoordinator(MaxSyncRequests) /\ InitWidgetUnused

NextSync ==
    \/ /\ \/ ScheduledSyncCheck
          \/ FetchNonForced
          \/ \E enabled \in BOOLEAN : ToggleAPISync(enabled)
          \/ \E s \in Slots : FetchFailed(s)
          \/ \E s \in Slots, remote \in RemoteLists : FetchSucceeded(s, remote)
          \/ \E s \in Slots : MergeSet(s)
          \/ (now < MaxTime /\ Tick)
       /\ UNCHANGED <<resolverVars, widgetVars>>

SpecSync == InitSync /\ [][NextSync]_vars

-----------------------------------------------------------------------------
(* SpecVotes: the widget's vote lookups and vote submissions over the hours, *)
(* with a threshold no count reaches                                         *)

InitVotes ==
    /\ InitResolverUnused
    /\ InitCoordinatorStored(MaxCacheEvents, StoredVoteMaps)
    /\ InitWidget({DefaultThreshold}, StoredCaches)
    /\ DOMAIN votesCache \subseteq DOMAIN storage.channelVotes

NextVotes ==
    \/ \E container, storageWorks \in BOOLEAN :
          /\ TimerFires(container, storageWorks)
          /\ UNCHANGED resolverVars
    \/ \E id \in ChannelIds \cup {Null} :
          /\ Navigate(id)
          /\ UNCHANGED resolverVars
    \/ /\ InvalidateContext
       /\ UNCHANGED resolverVars
    \/ \E s \in CallSlots, success \in BOOLEAN, votes \in ServerVotes :
          /\ LookupAnswered(s, success, votes)
          /\ UNCHANGED resolverVars
    \/ \E b \in ButtonIds, storageWorks \in BOOLEAN :
          /\ Click(b, storageWorks)
          /\ UNCHANGED resolverVars
    \/ \E s \in CallSlots, success \in BOOLEAN, votes \in ServerVotes :
          /\ VoteAnswered(s, success, votes)
          /\ UNCHANGED resolverVars
    \/ /\ now < MaxTime
       /\ WidgetTick
       /\ UNCHANGED resolverVars

SpecVotes == InitVotes /\ [][NextVotes]_vars

-----------------------------------------------------------------------------
(* SpecWidget: the widget's renders, clicks and threshold checks, and the    *)
(* background's addChannel handler                                           *)

InitWidgetPage ==
    /\ InitResolverUnused
    /\ InitCoordinator(MaxWidgetEvents)
    /\ InitWidget(Thresholds, {EmptyMap})

NextWidget ==
    \/ \E container, storageWorks \in BOOLEAN :
          /\ TimerFires(container, storageWorks)
          /\ UNCHANGED resolverVars
    \/ \E showVoting, container \in BOOLEAN :
          /\ UpdateSettings(showVoting, container)
          /\ UNCHANGED resolverVars
    \/ \E id \in ChannelIds \cup {Null} :
          /\ Navigate(id)
          /\ UNCHANGED resolverVars
    \/ /\ InvalidateContext
       /\ UNCHANGED resolverVars
    \/ \E s \in CallSlots, success \in BOOLEAN, votes \in ServerVotes :
          /\ LookupAnswered(s, success, votes)
          /\ UNCHANGED resolverVars
    \/ \E s \in CallSlots :
          /\ FlagCheckAnswered(s)
          /\ UNCHANGED resolverVars
    \/ \E b \in ButtonIds, storageWorks \in BOOLEAN :
          /\ Click(b, storageWorks)
          /\ UNCHANGED resolverVars
    \/ \E s \in CallSlots, success \in BOOLEAN, votes \in ServerVotes :
          /\ VoteAnswered(s, success, votes)
          /\ UNCHANGED resolverVars
    \/ \E b \in ButtonIds :
          /\ ErrorTimeout(b)
          /\ UNCHANGED resolverVars
    \/ /\ AddChannelDelivered
       /\ UNCHANGED resolverVars
    \/ \E s \in Slots :
          /\ AddChannelSet(s)
          /\ UNCHANGED widgetVars
          /\ UNCHANGED resolverVars

SpecWidget == InitWidgetPage /\ [][NextWidget]_vars

\* The same with a smaller budget of events.
InitThreshold ==
    /\ InitResolverUnused
    /\ InitCoordinator(MaxThresholdEvents)
    /\ InitWidget(Thresholds, {EmptyMap})

SpecThreshold == InitThreshold /\ [][NextWidget]_vars

-----------------------------------------------------------------------------
(* C3: toggleChannel twice *)

SymmetricDifference(A, B) == (A \ B) \cup (B \ A)

\* C3: two toggleChannel requests for the same channelId handled one after the
\* other leave the map with the same set of keys as before the first one, and
\* a single toggleChannel changes the membership of exactly that channelId.
C3_ToggleTwice ==
    /\ (hist.action = "toggleChannel" /\ hist.isolated) =>
          SymmetricDifference(DOMAIN storage.highlightedChannels, hist.before)
             = {hist.channelId}
    /\ hist.twice => DOMAIN storage.highlightedChannels = hist.origin

\* Two toggles of one channel have been handled one after the other,
\* starting from a map that held an entry.
C3_Witness == hist.twice /\ hist.origin # {}

-----------------------------------------------------------------------------
(* C4: clearAutoAdded and clearManualAdded *)

C4_ManualKeys(M) == {k \in DOMAIN M : ~M[k].autoAdded}

C4_Keeps(before, after, keys) ==
    /\ DOMAIN after = keys
    /\ \A k \in keys : after[k] = before[k]

\* C4: clearAutoAdded leaves exactly the manual entries and clearManualAdded
\* exactly the auto-added ones, every kept entry unchanged; the two results
\* are disjoint and their union is the original map.
C4_ClearsPartition ==
    [][\A s \in Slots :
         LET M == storage.highlightedChannels
             M2 == storage'.highlightedChannels
         IN /\ (ClearAutoAddedSet(s) /\ ~tasks[s].stale) =>
                  /\ C4_Keeps(M, M2, C4_ManualKeys(M))
                  /\ M2 = KeepManual(M)
            /\ (ClearManualAddedSet(s) /\ ~tasks[s].stale) =>
                  /\ C4_Keeps(M, M2, DOMAIN M \ C4_ManualKeys(M))
                  /\ M2 = KeepAutoAdded(M)
            /\ (ClearAutoAddedSet(s) \/ ClearManualAddedSet(s)) =>
                  /\ DOMAIN KeepManual(M) \cap DOMAIN KeepAutoAdded(M) = {}
                  /\ DOMAIN KeepManual(M) \cup DOMAIN KeepAutoAdded(M) = DOMAIN M
       ]_vars

\* clearAutoAdded has run on a map of two entries and kept one, a manual one.
C4_Witness ==
    /\ hist.action = "clearAutoAdded" /\ hist.isolated
    /\ Cardinality(hist.before) = 2
    /\ Cardinality(DOMAIN storage.highlightedChannels) = 1
    /\ \A k \in DOMAIN storage.highlightedChannels :
          ~storage.highlightedChannels[k].autoAdded

-----------------------------------------------------------------------------
(* C5: the sync merge *)

C5_SameButVotes(e, f) ==
    /\ f.id = e.id /\ f.name = e.name /\ f.handle = e.handle
    /\ f.addedAt = e.addedAt /\ f.autoAdded = e.autoAdded
    /\ f.fromAPI = e.fromAPI /\ f.highlighted = e.highlighted

\* C5: a successful sync merge inserts each remote id that is not yet a key as
\* an auto-added, from-API entry; for a remote id that is already a key it
\* changes only the entry's votes; no local entry absent from the remote list
\* is removed or changed.
C5_MergeFrame ==
    [][\A s \in Slots :
         (MergeSet(s) /\ ~tasks[s].stale) =>
            LET M == storage.highlightedChannels
                M2 == storage'.highlightedChannels
                R == tasks[s].remote
            IN /\ DOMAIN M2 = DOMAIN M \cup DOMAIN R
               /\ \A id \in DOMAIN R \ DOMAIN M :
                     M2[id].autoAdded /\ M2[id].fromAPI
               /\ \A id \in DOMAIN R \cap DOMAIN M :
                     /\ C5_SameButVotes(M[id], M2[id])
                     /\ M2[id].votes = OrZero(R[id].votes)
               /\ \A id \in DOMAIN M \ DOMAIN R : M2[id] = M[id]
       ]_vars

\* A sync has merged into a map that held a manual entry, which is still
\* manual and now carries the remote vote count.
C5_Witness ==
    /\ hist.action = "sync" /\ hist.isolated
    /\ \E id \in hist.before \cap DOMAIN storage.highlightedChannels :
          /\ ~storage.highlightedChannels[id].autoAdded
          /\ storage.highlightedChannels[id].votes # NoVotes

-----------------------------------------------------------------------------
(* C6: the 24-hour gate *)

\* This step issues the GET of a sync started by `origin`.
GetIssued(origin) ==
    \E s \in Slots :
       /\ tasks[s] = Idle
       /\ tasks'[s] # Idle
       /\ tasks'[s].action = "sync" /\ tasks'[s].pc = "fetching"
       /\ tasks'[s].origin = origin

\* C6: a scheduled check and a non-forced fetch issue the GET only when
\* apiSyncEnabled is not false and no lastAPISync is stored or at least 24
\* hours have passed since it; so a scheduled GET comes at least 24 hours
\* after every earlier scheduled GET whose fetch succeeded.
C6_DailyGate ==
    [][/\ (GetIssued("scheduled") \/ GetIssued("nonforced")) =>
             /\ storage.apiSyncEnabled # "false"
             /\ \/ storage.lastAPISync = NoTime
                \/ now - storage.lastAPISync >= 24
       /\ lastGet'.mergedBefore # NoTime =>
             lastGet'.at - lastGet'.mergedBefore >= 24
      ]_vars

\* A second scheduled GET has been issued after one whose merge was stored.
C6_Witness == lastGet.mergedBefore # NoTime

-----------------------------------------------------------------------------
(* C7: apiSyncEnabled gates the sync *)

\* C7: while apiSyncEnabled is false, no sync other than one requested by
\* refreshFromAPI writes highlightedChannels, channelVotes or lastAPISync.
C7_DisabledSyncWritesNothing ==
    [][\A s \in Slots :
         (MergeSet(s) /\ tasks[s].origin # "refresh") =>
            storage.apiSyncEnabled # "false"
      ]_vars

-----------------------------------------------------------------------------
(* C8: a failed GET *)

\* C8: when the GET fails, the call ends leaving highlightedChannels,
\* channelVotes and lastAPISync unchanged, sends no updateHighlights and
\* issues no second GET.
C8_FailedFetch ==
    [][\A s \in Slots :
         (/\ tasks[s] # Idle /\ tasks[s].action = "sync"
          /\ tasks[s].pc = "fetching" /\ tasks'[s] = Idle) =>
            /\ storage' = storage
            /\ notifySeq' = notifySeq /\ notified' = notified
            /\ \A r \in Slots \ {s} : tasks'[r] = tasks[r]
      ]_vars

\* A scheduled GET was issued, its call has ended, and no merge was stored.
C8_Witness ==
    /\ lastGet.at # NoTime /\ ~lastGet.merged
    /\ storage.lastAPISync = NoTime
    /\ \A s \in Slots : tasks[s] = Idle

-----------------------------------------------------------------------------
(* C9: entries are destroyed only by an explicit remove or clear *)

\* C9: an entry disappears only by toggleChannel on its id, clearAll,
\* clearAutoAdded (if auto-added) or clearManualAdded (if manual), and a
\* stored apiSyncEnabled changes only by toggleAPISync.
C9_OnlyExplicitRemoval ==
    [][/\ \A k \in DOMAIN storage.highlightedChannels \ DOMAIN storage'.highlightedChannels :
             \/ ClearAll
             \/ \E s \in Slots :
                   \/ ToggleChannelSet(s) /\ tasks[s].channelId = k
                   \/ ClearAutoAddedSet(s) /\ storage.highlightedChannels[k].autoAdded
                   \/ ClearManualAddedSet(s) /\ ~storage.highlightedChannels[k].autoAdded
       /\ (storage.apiSyncEnabled # "unset"
            /\ storage'.apiSyncEnabled # storage.apiSyncEnabled) =>
             \E enabled \in BOOLEAN : ToggleAPISync(enabled)
      ]_vars

-----------------------------------------------------------------------------
(* C10: id equals key *)

\* C10: in every reachable state each entry of the stored map carries as its
\* id property the key it is stored under, so no two entries carry the same id.
C10_IdIsKey ==
    /\ \A k \in DOMAIN storage.highlightedChannels :
          storage.highlightedChannels[k].id = k
    /\ \A a, b \in DOMAIN storage.highlightedChannels :
          storage.highlightedChannels[a].id = storage.highlightedChannels[b].id
             => a = b

\* The stored map holds a manual entry and an entry merged from the API.
C10_Witness ==
    \E a, b \in DOMAIN storage.highlightedChannels :
       /\ ~storage.highlightedChannels[a].autoAdded
       /\ storage.highlightedChannels[b].fromAPI

-----------------------------------------------------------------------------
(* C11-C13: getChannelVotesFromAPI and the vote cache *)

\* This step is a call of getChannelVotesFromAPI for channel id: it sends the
\* getChannelVotes request, or returns without sending one.
C11_Requests(id) ==
    \E s \in CallSlots :
       /\ calls[s] = NoCall /\ calls'[s] # NoCall
       /\ calls'[s].fn = "render" /\ calls'[s].pc = "lookup"
       /\ calls'[s].channelId = id

C11_ReturnsAtOnce(id) ==
    /\ ret'.seq # ret.seq
    /\ ret'.fn = "getChannelVotesFromAPI" /\ ret'.sent = 0
    /\ ret'.channelId = id

\* The entry of channel id is within the documented window of one hour.
C11_Fresh(id) ==
    /\ id \in DOMAIN votesCache
    /\ now - votesCache[id].timestamp < 1

C11_ServedFromCache(id) ==
    /\ ~C11_Requests(id)
    /\ ret'.value = votesCache[id].votes
    /\ votesCache' = votesCache

\* C11 as stated: when the cache holds an entry of the channel within the
\* TTL window, getChannelVotesFromAPI returns the cached count, sends no
\* getChannelVotes request and leaves the cached timestamp unchanged.
C11_CachedWithinTTL ==
    [][\A id \in ChannelIds :
         ((C11_Requests(id) \/ C11_ReturnsAtOnce(id)) /\ C11_Fresh(id))
            => C11_ServedFromCache(id)
      ]_vars

\* C11, amended: the same while the extension context is valid.
C11_CachedWithinTTLValid ==
    [][\A id \in ChannelIds :
         (/\ C11_Requests(id) \/ C11_ReturnsAtOnce(id)
          /\ C11_Fresh(id)
          /\ contextValid)
            => C11_ServedFromCache(id)
      ]_vars

\* A call in a valid context has been served from the cache.
C11_Witness ==
    /\ ret.fn = "getChannelVotesFromAPI" /\ ret.how = "cached"
    /\ contextValid
    /\ ret.channelId \in DOMAIN votesCache
    /\ now - votesCache[ret.channelId].timestamp < 1

\* C12: when the cached entry of the channel is older than one hour or
\* absent, getChannelVotesFromAPI (in a valid context) sends one
\* getChannelVotes request and, on success, stores the returned count with
\* the current time as the cached timestamp.
C12_OneHourTTL ==
    [][\A id \in ChannelIds :
         /\ (/\ C11_Requests(id) \/ C11_ReturnsAtOnce(id)
             /\ contextValid
             /\ id \notin DOMAIN votesCache \/ now - votesCache[id].timestamp > 1)
               => C11_Requests(id)
         /\ (ret'.seq # ret.seq /\ ret'.how = "fetched" /\ ret'.channelId = id)
               => /\ id \in DOMAIN votesCache'
                  /\ votesCache'[id] = [votes |-> ret'.value, timestamp |-> now]
      ]_vars

\* The count the extension recorded last for the channel, 0 if none.
C13_LastKnown(id) == IF known[id] = NoVotes THEN 0 ELSE known[id]

-----------------------------------------------------------------------------
(* C14, C15: upvoteChannel *)

\* This step sends the voteChannel request of a click on a button of id.
C14_Submits(id) ==
    \E s \in CallSlots :
       /\ calls[s] = NoCall /\ calls'[s] # NoCall
       /\ calls'[s].fn = "click" /\ calls'[s].channelId = id

\* C14: when the submission succeeds, upvoteChannel has sent exactly one
\* voteChannel request, returns the count the server returned, and the
\* stored channelVotes count and the cache entry of the channel equal it.
C14_VoteSucceeds ==
    [][\A id \in ChannelIds :
         /\ C14_Submits(id) => sentVotes'[id] = sentVotes[id] + 1
         /\ ~C14_Submits(id) => sentVotes'[id] = sentVotes[id]
         /\ \A s \in CallSlots, votes \in ServerVotes :
               (VoteAnswered(s, TRUE, votes) /\ calls[s].channelId = id)
                  => /\ ret'.fn = "upvoteChannel" /\ ret'.value = votes
                     /\ id \in DOMAIN storage'.channelVotes
                     /\ storage'.channelVotes[id] = votes
                     /\ id \in DOMAIN votesCache'
                     /\ votesCache'[id].votes = votes
      ]_vars

\* A vote was accepted and the server's count, which differs from the count
\* stored before, is returned.
C14_Witness ==
    /\ ret.fn = "upvoteChannel" /\ ret.how = "voted"
    /\ ret.value = 2
    /\ sentVotes[ret.channelId] = 1

-----------------------------------------------------------------------------
(* C16-C17: one vote per session and the states of the vote button *)

\* C16: under every interleaving of clicks, votes in flight and re-renders
\* of the button, at most one voteChannel request is sent per channel in a
\* browser session, and none for a channel recorded as voted.
C16_OneVotePerSession ==
    [][\A id \in ChannelIds :
         /\ sentVotes'[id] <= 1
         /\ hasVotedThisSession(id) => sentVotes'[id] = sentVotes[id]
      ]_vars

\* The click on button b submits a vote.
C17_Submits(b) ==
    /\ \E storageWorks \in BOOLEAN : Click(b, storageWorks)
    /\ sentVotes' # sentVotes

\* C17: a click that submits takes the button from unvoted to voting
\* (disabled); a successful answer takes it to voted (disabled); a failed
\* submission takes it back to unvoted, enabled, with its original content
\* and the error indicator, and the channel is not recorded as voted.
C17_ButtonStates ==
    [][/\ \A b \in ButtonIds :
            C17_Submits(b) =>
               /\ buttons[b].state = "unvoted"
               /\ buttons'[b].state = "voting" /\ buttons'[b].disabled
       /\ \A s \in CallSlots, votes \in ServerVotes :
            /\ VoteAnswered(s, TRUE, votes) =>
                  LET b == calls[s].button
                  IN /\ buttons[b].state = "voting"
                     /\ buttons'[b] # NoButton =>
                           /\ buttons'[b].state = "voted"
                           /\ buttons'[b].disabled
            /\ VoteAnswered(s, FALSE, votes) =>
                  LET b == calls[s].button
                  IN /\ votedChannels' = votedChannels
                     /\ buttons'[b] # NoButton =>
                           /\ buttons'[b].state = "unvoted"
                           /\ ~buttons'[b].disabled
                           /\ buttons'[b].error
                           /\ buttons'[b].count = buttons[b].count
      ]_vars

-----------------------------------------------------------------------------
(* C18-C19: the vote threshold *)

\* This step ends getChannelVotesFromAPI of a render of channel id.
C18_Fetched(id) ==
    /\ ret'.seq # ret.seq
    /\ ret'.fn = "getChannelVotesFromAPI"
    /\ ret'.channelId = id

\* This step is the render's check of channel id against the flagged map.
C18_Checks(s, id) ==
    /\ calls[s] # NoCall /\ calls[s].fn = "render" /\ calls[s].pc = "flagcheck"
    /\ calls[s].channelId = id
    /\ calls'[s] = NoCall

\* The render goes on to that check.
C18_GoesOnToCheck(id) ==
    \E s \in CallSlots :
       /\ calls'[s] # NoCall /\ calls'[s].fn = "render"
       /\ calls'[s].pc = "flagcheck"
       /\ calls'[s].channelId = id /\ calls'[s].voteCount = ret'.value
       /\ calls'[s] # calls[s]

\* The step inserts a new vote button showing count and sends nothing.
C18_InsertsButton(id, count) ==
    /\ dom' # <<>>
    /\ buttons[Head(dom')] = NoButton
    /\ buttons'[Head(dom')].channelId = id
    /\ buttons'[Head(dom')].count = count
    /\ outbox' = outbox

\* The step sends one addChannel for channel id.
C18_SendsAddChannel(id) ==
    /\ Len(outbox') = Len(outbox) + 1
    /\ outbox' = Append(outbox, outbox'[Len(outbox')])
    /\ outbox'[Len(outbox')].channelId = id

\* The step inserts no vote button.
C18_InsertsNoButton == Range(dom') \subseteq Range(dom)

C18_Render(id) ==
    /\ (C18_Fetched(id) /\ ret'.value < voteThreshold)
          => C18_InsertsButton(id, ret'.value)
    /\ (C18_Fetched(id) /\ ret'.value >= voteThreshold)
          => (C18_GoesOnToCheck(id) /\ outbox' = outbox)
    /\ \A s \in CallSlots :
          C18_Checks(s, id) =>
             IF id \notin DOMAIN storage.highlightedChannels
             THEN C18_SendsAddChannel(id) /\ C18_InsertsNoButton
             ELSE C18_InsertsButton(id, calls[s].voteCount)

\* C18 as stated: a render with voting enabled, whose fetched count is at
\* the threshold or above while the channel id is not a key of the flagged
\* map, sends one addChannel and inserts no vote button; in every other case
\* it sends no addChannel and inserts the button showing the fetched count.
C18_RenderThreshold ==
    [][\A id \in ChannelIds : C18_Render(id)]_vars

\* C18, amended: the same while the extension context is valid.
C18_RenderThresholdValid ==
    [][\A id \in ChannelIds : contextValid => C18_Render(id)]_vars

\* A render in a valid context fetched a count at the threshold for an
\* unflagged channel, sent addChannel and inserted no button.
C18_Witness ==
    /\ contextValid
    /\ ret.fn = "getChannelVotesFromAPI" /\ ret.value >= voteThreshold
    /\ Len(outbox) = 1 /\ outbox[1].channelId = ret.channelId
    /\ dom = <<>>
    /\ \A s \in CallSlots : calls[s] = NoCall

\* This step ends upvoteChannel for channel id.
C19_Voted(id) ==
    /\ ret'.seq # ret.seq
    /\ ret'.fn = "upvoteChannel" /\ ret'.how # "threw"
    /\ ret'.channelId = id

C19_Vote(id) ==
    /\ (C19_Voted(id) /\ ret'.value < voteThreshold) =>
          /\ outbox' = outbox
          /\ storage'.highlightedChannels = storage.highlightedChannels
    /\ (C19_Voted(id) /\ ret'.value >= voteThreshold) =>
          C18_SendsAddChannel(id)

\* The background's part: the addChannel request of an unflagged channel
\* adds it as auto-added and changes no other entry; on a channel that is a
\* key of the map it writes nothing.
C19_AddChannel ==
    /\ \A s \in Slots :
          (AddChannelSet(s) /\ ~tasks[s].stale) =>
             LET M == storage.highlightedChannels
                 M2 == storage'.highlightedChannels
                 id == tasks[s].channelId
             IN /\ DOMAIN M2 = DOMAIN M \cup {id}
                /\ M2[id].autoAdded /\ M2[id].id = id
                /\ \A k \in DOMAIN M \ {id} : M2[k] = M[k]
    /\ (AddChannelDelivered /\ Head(outbox).channelId \in DOMAIN storage.highlightedChannels)
          => /\ storage' = storage
             /\ tasks' = tasks

-----------------------------------------------------------------------------
(* SpecAnnotate: the annotation passes of a tab under every order of        *)
(* messages and navigations                                                 *)

InitAnnotate ==
    /\ url = Null
    /\ extracted = NotCalled
    /\ channelId = Null
    /\ flagged = NotChecked
    /\ InitAnnotator(AnnotatorMaps, AllSettings, Pages)
    /\ InitCoordinator(MaxAnnotatorEvents)
    /\ InitWidgetUnused

NextAnnotate ==
    \/ \E channels \in AnnotatorMaps : UpdateHighlights(channels)
    \/ \E st \in AllSettings : AnnotatorUpdateSettings(st)
    \/ \E loc \in Pages : NavigateFinish(loc)
    \/ \E s \in PassSlots : HeaderWaited(s)
    \/ \E s \in PassSlots : OwnerWaited(s)
    \/ \E s \in PassSlots : RetryFires(s)

SpecAnnotate == InitAnnotate /\ [][NextAnnotate]_vars

-----------------------------------------------------------------------------
(* C20: the annotation pass applied twice *)

\* No pass is in flight.
C20_Quiet == \A s \in PassSlots : passes[s] = NoPass

\* C20: after two annotation passes in succession, with no change of the
\* flagged map, the settings or the page, the channel header and the video
\* title carry the warning elements they carried after the first pass, one
\* on a decorated element; no element ever carries two.
C20_ReapplyIsNoOp ==
    /\ header.warnings <= 1
    /\ title.warnings <= 1
    /\ (passLog.done = 2 /\ C20_Quiet) =>
          /\ header.warnings = passLog.header
          /\ title.warnings = passLog.title

-----------------------------------------------------------------------------
(* C22: the two display settings *)

\* The last pass that ran alone was triggered by updateSettings and has
\* completed.
C22_SettingsPassDone == C20_Quiet /\ passLog.last = "updateSettings"

\* C22: once an annotation pass triggered by updateSettings has completed,
\* the channel header carries no warning and no highlight if
\* showChannelHeader is false, and the video title carries no warning if
\* showVideoTitle is false.
C22_SettingsGate ==
    C22_SettingsPassDone =>
       /\ ~settings.showChannelHeader => (header.warnings = 0 /\ ~header.marked)
       /\ ~settings.showVideoTitle => title.warnings = 0

\* The part of C22 about the video title.
C22_TitleGate ==
    (C22_SettingsPassDone /\ ~settings.showVideoTitle) => title.warnings = 0

-----------------------------------------------------------------------------
(* C23: the decoration after an updateHighlights message *)

\* The last pass that ran alone was triggered by an updateHighlights message
\* that changed the flag status of the channel of the page shown, and it has
\* completed.
C23_MapPassDone ==
    C20_Quiet /\ passLog.last = "updateHighlights" /\ passLog.flipped

C23_FlaggedNow == AnyFlagged(location.channelIds, highlightedChannels)

\* The decoration of the channel header matches the map.
C23_HeaderMatches ==
    (C23_MapPassDone /\ location.kind = "channel") =>
       /\ (C23_FlaggedNow /\ settings.showChannelHeader) => header.warnings > 0
       /\ ~C23_FlaggedNow => header.warnings = 0

\* The decoration of the video title matches the map, on a watch page whose
\* owner link is there.
C23_TitleMatches ==
    (C23_MapPassDone /\ location.kind = "video" /\ location.ownerLink) =>
       /\ (C23_FlaggedNow /\ settings.showVideoTitle) => title.warnings > 0
       /\ ~C23_FlaggedNow => title.warnings = 0

\* C23: when an updateHighlights message changes the flag status of the
\* channel of the page shown, then once the triggered pass has completed a
\* warning is present if the channel is flagged and the surface is enabled,
\* and absent if the channel is not flagged.
C23_DecorationMatchesMap == C23_HeaderMatches /\ C23_TitleMatches

-----------------------------------------------------------------------------
(* SpecPopup: the popup's handlers and the coordinator handlers they call *)

InitPopup ==
    /\ url = Null
    /\ extracted = NotCalled
    /\ channelId = Null
    /\ flagged = NotChecked
    /\ highlightedChannels = EmptyMap
    /\ settings = DefaultSettings
    /\ location = HomePage
    /\ header = Undecorated
    /\ title = NoWarning
    /\ currentVideoId = Null
    /\ passes = [s \in PassSlots |-> NoPass]
    /\ decoration = NotDecorating
    /\ popup \in {PopupOn(id) : id \in ChannelIds \cup {Null}}
    /\ wait = NotWaiting
    /\ sidebar = SidebarUnused
    /\ received = <<>>
    /\ synced = NotSynced
    /\ tabs = NoTabs
    /\ database = NewDatabase
    /\ passLog = LogReset
    /\ InitCoordinator(MaxPopupEvents)
    /\ InitWidgetUnused

OtherThanPopup ==
    /\ UNCHANGED <<url, extracted, channelId, flagged, highlightedChannels,
                   settings, location, header, title, currentVideoId, passes,
                   decoration, wait,
                   sidebar,
                   received,
                   synced,
                   tabs,
                   database,
                   passLog>>
    /\ UNCHANGED widgetVars

\* handleSettingChange (popup.js:61-82): the setting of the checkbox is put
\* into settings, and settings is written to the store by the popup itself.
HandleSettingChange(name, checked) ==
    LET st == [popup.settings EXCEPT ![name] = checked]
    IN /\ Request
       /\ popup' = [popup EXCEPT !.settings = st,
                                 !.wrote = @ \cup {"warningSettings"}]
       /\ storage' = [storage EXCEPT !.warningSettings = st]
       /\ NoNotify
       /\ UNCHANGED <<now, tasks, hist, lastGet>>
       /\ OtherThanPopup

\* handleToggle (popup.js:175-210): without a channel it returns; else it
\* sends toggleChannel, which the coordinator handles.
HandleToggle(name) ==
    /\ popup.currentChannelId # Null
    /\ ToggleChannelGet(popup.currentChannelId, name)
    /\ popup' = [popup EXCEPT !.sent = @ \cup {"toggleChannel"}]
    /\ OtherThanPopup

\* handleClearAll (popup.js:213-226), confirmed: it sends clearAll.
HandleClearAll ==
    /\ ClearAll
    /\ popup' = [popup EXCEPT !.sent = @ \cup {"clearAll"}]
    /\ OtherThanPopup

\* The coordinator's storage.set callback of toggleChannel.
PopupToggleSet(s) ==
    /\ ToggleChannelSet(s)
    /\ UNCHANGED popup
    /\ OtherThanPopup

NextPopup ==
    \/ \E name \in PopupSettingNames, checked \in BOOLEAN :
          HandleSettingChange(name, checked)
    \/ \E name \in ChannelNames : HandleToggle(name)
    \/ HandleClearAll
    \/ \E s \in Slots : PopupToggleSet(s)

SpecPopup == InitPopup /\ [][NextPopup]_vars

-----------------------------------------------------------------------------
(* C24: the popup and the durable store *)

\* C24: the popup never writes the durable store itself; every change it
\* makes to persisted state is made by a message the coordinator handles.
C24_PopupNeverWrites == popup.wrote = {}

\* The popup's changes of the flagged map are made by messages.
C24_MapByMessage ==
    [][storage'.highlightedChannels # storage.highlightedChannels
         => \/ popup.sent # {}
            \/ popup'.sent # {}]_vars

-----------------------------------------------------------------------------
(* SpecWait: waitForElement (content.js:126-156), the host page's DOM and *)
(* the clock                                                            *)

InitWait ==
    /\ url = Null
    /\ extracted = NotCalled
    /\ channelId = Null
    /\ flagged = NotChecked
    /\ highlightedChannels = EmptyMap
    /\ settings = DefaultSettings
    /\ location = HomePage
    /\ header = Undecorated
    /\ title = NoWarning
    /\ currentVideoId = Null
    /\ passes = [s \in PassSlots |-> NoPass]
    /\ decoration = NotDecorating
    /\ popup = PopupUnresolved
    /\ wait \in {NotWaitingOn(c, present) : c \in WaitCalls, present \in BOOLEAN}
    /\ sidebar = SidebarUnused
    /\ received = <<>>
    /\ synced = NotSynced
    /\ tabs = NoTabs
    /\ database = NewDatabase
    /\ passLog = LogReset
    /\ InitCoordinator(0)
    /\ InitWidgetUnused

OtherThanWait ==
    /\ UNCHANGED <<url, extracted, channelId, flagged, highlightedChannels,
                   settings, location, header, title, currentVideoId, passes,
                   decoration, popup, sidebar,
                   received,
                   synced,
                   tabs,
                   database,
                   passLog>>
    /\ UNCHANGED <<coordVars, widgetVars>>

\* waitForElement(selector, timeout) up to the return of the promise: an
\* element that is there resolves it at once; else the observer is started
\* and the timer is set.
WaitForElement(call) ==
    /\ wait.pc \in {"idle", "resolved"}
    /\ ~wait.timer
    /\ wait.calls < MaxWaits
    /\ wait' = IF wait.present
               THEN [wait EXCEPT !.pc = "resolved", !.call = call,
                                 !.value = "element", !.elapsed = 0,
                                 !.appeared = TRUE, !.calls = @ + 1]
               ELSE [wait EXCEPT !.pc = "pending", !.call = call,
                                 !.value = "none", !.observing = TRUE,
                                 !.timer = TRUE, !.elapsed = 0,
                                 !.appeared = FALSE, !.calls = @ + 1]
    /\ OtherThanWait

\* The host page inserts a matching element; an observer that is observing
\* is called back, finds the element, disconnects and resolves.
ElementInserted ==
    /\ ~wait.present
    /\ wait' = IF wait.observing
               THEN [Resolve(wait, "element") EXCEPT
                        !.present = TRUE, !.observing = FALSE,
                        !.appeared = @ \/ wait.timer]
               ELSE [wait EXCEPT !.present = TRUE,
                                 !.appeared = @ \/ wait.timer]
    /\ OtherThanWait

\* The host page removes the matching element; an observer that is observing
\* is called back and finds nothing.
ElementRemoved ==
    /\ wait.present
    /\ wait' = [wait EXCEPT !.present = FALSE]
    /\ OtherThanWait

\* A second passes while the timer is set.
WaitTick ==
    /\ wait.timer
    /\ wait.elapsed < wait.call.timeout
    /\ wait' = [wait EXCEPT !.elapsed = @ + 1]
    /\ OtherThanWait

\* The setTimeout callback: observer.disconnect(); resolve(null).
WaitTimerFires ==
    /\ wait.timer
    /\ wait.elapsed = wait.call.timeout
    /\ wait' = [Resolve(wait, "null") EXCEPT !.timer = FALSE, !.observing = FALSE]
    /\ OtherThanWait

NextWait ==
    \/ \E call \in WaitCalls : WaitForElement(call)
    \/ ElementInserted
    \/ ElementRemoved
    \/ WaitTick
    \/ WaitTimerFires

SpecWait == InitWait /\ [][NextWait]_vars

\* Time passes and a timer that is due fires.
SpecWaitFair == SpecWait /\ WF_vars(WaitTick) /\ WF_vars(WaitTimerFires)

-----------------------------------------------------------------------------
(* C26: waitForElement resolves *)

\* What the promise has resolved with, and the observer after that.
C26_ResolvedRight ==
    wait.pc = "resolved" =>
       /\ ~wait.observing
       /\ wait.value = "element" <=> wait.appeared
       /\ wait.value = "null" =>
             (~wait.appeared /\ wait.elapsed = wait.call.timeout)

\* C26: every waitForElement call resolves, with the element if a matching
\* element is there at the call or is inserted before the timeout, and with
\* null once the timeout has elapsed without one; after it has resolved its
\* observer is disconnected.
C26_WaitResolves ==
    /\ []C26_ResolvedRight
    /\ (wait.pc = "pending") ~> (wait.pc = "resolved")

\* The second call was resolved by the observer, some seconds after it was
\* made, and its timer has fired since.
C26_Witness ==
    /\ wait.pc = "resolved" /\ wait.value = "element"
    /\ wait.calls = 2 /\ wait.elapsed > 0
    /\ ~wait.timer

-----------------------------------------------------------------------------
(* SpecSidebar: the sidebar variant of the annotator (part_000), the host *)
(* page and the timers                                                  *)

InitSidebar ==
    /\ url = Null
    /\ extracted = NotCalled
    /\ channelId = Null
    /\ flagged = NotChecked
    /\ highlightedChannels \in SidebarMaps
    /\ settings = DefaultSettings
    /\ location \in {ChannelPage(<<IdHandleFooBar>>),
                     VideoPage(<<IdHandleFooBar>>, VideoOne, TRUE)}
    /\ header = Undecorated
    /\ title = NoWarning
    /\ currentVideoId = Null
    /\ passes = [s \in PassSlots |-> NoPass]
    /\ decoration = NotDecorating
    /\ popup = PopupUnresolved
    /\ wait = NotWaiting
    /\ sidebar = SidebarUnused
    /\ received = <<>>
    /\ synced = NotSynced
    /\ tabs = NoTabs
    /\ database = NewDatabase
    /\ passLog = LogReset
    /\ InitCoordinator(MaxSidebarEvents)
    /\ InitWidgetUnused

OtherThanSidebar ==
    /\ UNCHANGED <<url, extracted, channelId, flagged, settings, location,
                   currentVideoId, passes, decoration, popup, wait, received,
                   synced,
                   tabs,
                   database,
                   passLog>>
    /\ UNCHANGED <<storage, now, tasks, hist, lastGet>>
    /\ NoNotify
    /\ UNCHANGED widgetVars

\* applyHighlights and checkVideoPage of part_000 (lines 48-172), which run
\* to their end without a wait: the header is highlighted or unhighlighted,
\* the title gets or loses its warning, the three sidebar timers are set and
\* a sidebar observer is started. pending tells whether the debounce timer
\* is set when the pass starts.
SidebarApplyHighlights(channels, pending) ==
    LET isFlagged == KeyFlagged(location, channels)
        h == IF location.kind # "channel" THEN header
             ELSE IF isFlagged
             THEN highlightElementIn("part_000", header, TRUE, TRUE)
             ELSE unhighlightElementIn("part_000", header)
        t == IF location.kind # "video" \/ ~location.ownerLink THEN title
             ELSE IF isFlagged
             THEN (IF title.warnings = 0 THEN [warnings |-> 1] ELSE title)
             ELSE [warnings |-> RemoveFirstWarning(title.warnings)]
        added == h.warnings > header.warnings \/ t.warnings > title.warnings
        removed == h.warnings < header.warnings \/ t.warnings < title.warnings
        own == OwnTrigger(added, removed)
    IN /\ highlightedChannels' = channels
       /\ header' = h
       /\ title' = t
       /\ sidebar' = [sidebar EXCEPT
                         !.highlightTimeout = pending \/ own,
                         !.ownTrigger = own \/ (pending /\ sidebar.ownTrigger),
                         !.sidebarTimers = 3,
                         !.observing = @ \/ location.kind = "video"]
       /\ OtherThanSidebar

\* addWarningsToSidebarVideos (part_000:218-349) on the sidebar sb: every
\* item with a channel name element that is not marked as processed gets
\* or loses its warning and border, and is marked.
addWarningsToSidebarVideos(sb, channels) ==
    LET due(i) == /\ sb.items[i].present
                  /\ sb.items[i].named
                  /\ ~sb.items[i].processed
        match(i) == SidebarMatches(sb.items[i].name, channels)
        added == \E i \in ItemIds : due(i) /\ match(i) /\ ~sb.items[i].warning
        removed == \E i \in ItemIds : due(i) /\ ~match(i) /\ sb.items[i].warning
        own == OwnTrigger(added, removed)
    IN [sb EXCEPT
          !.items = [i \in ItemIds |->
                       IF due(i)
                       THEN [sb.items[i] EXCEPT !.warning = match(i),
                                                !.border = match(i),
                                                !.processed = TRUE,
                                                !.map = channels]
                       ELSE sb.items[i]],
          !.highlightTimeout = @ \/ own,
          !.ownTrigger = own \/ (sb.highlightTimeout /\ sb.ownTrigger)]

\* The sidebar results are there on a watch page.
SidebarPass(sb) ==
    /\ sidebar' = IF location.kind = "video"
                  THEN addWarningsToSidebarVideos(sb, highlightedChannels)
                  ELSE sb
    /\ UNCHANGED <<highlightedChannels, header, title>>
    /\ OtherThanSidebar

\* onMessage updateHighlights (part_000:459-465).
SidebarUpdateHighlights(channels) ==
    /\ Request
    /\ SidebarApplyHighlights(channels, sidebar.highlightTimeout)

\* The host page inserts a video into the sidebar: the page observer sets the
\* debounce timer, a sidebar observer its own timer.
HostAddsVideo(i, name, named) ==
    /\ Request
    /\ location.kind = "video"
    /\ ~sidebar.items[i].present
    /\ sidebar' = [sidebar EXCEPT
                      !.items[i] = NewItem(name, named),
                      !.highlightTimeout = TRUE,
                      !.ownTrigger = FALSE,
                      !.newVideosTimer = @ \/ sidebar.observing]
    /\ UNCHANGED <<highlightedChannels, header, title>>
    /\ OtherThanSidebar

\* The host page changes the document elsewhere.
HostMutation ==
    /\ Request
    /\ sidebar' = [sidebar EXCEPT !.highlightTimeout = TRUE,
                                  !.ownTrigger = FALSE]
    /\ UNCHANGED <<highlightedChannels, header, title>>
    /\ OtherThanSidebar

\* window.highlightTimeout fires (part_000:445-447).
HighlightTimeoutFires ==
    /\ sidebar.highlightTimeout
    /\ UNCHANGED requestsLeft
    /\ SidebarApplyHighlights(highlightedChannels, FALSE)

\* One of the timers of checkVideoPage fires (part_000:159-169).
SidebarTimerFires ==
    /\ sidebar.sidebarTimers > 0
    /\ UNCHANGED requestsLeft
    /\ SidebarPass([sidebar EXCEPT !.sidebarTimers = @ - 1])

\* The timer of a sidebar observer fires (part_000:201-205).
NewVideosTimerFires ==
    /\ sidebar.newVideosTimer
    /\ UNCHANGED requestsLeft
    /\ SidebarPass([sidebar EXCEPT !.newVideosTimer = FALSE])

NextSidebar ==
    \/ \E channels \in SidebarMaps : SidebarUpdateHighlights(channels)
    \/ \E i \in ItemIds, item \in SidebarInputs :
          HostAddsVideo(i, item.name, item.named)
    \/ HostMutation
    \/ HighlightTimeoutFires
    \/ SidebarTimerFires
    \/ NewVideosTimerFires

SpecSidebar == InitSidebar /\ [][NextSidebar]_vars

\* The names of a matched and of an unmatched channel.
ChainNames == {<<"F", "o", "o", "B", "a", "r">>, <<"O", "t", "h", "e", "r">>}

\* The same steps, with one sidebar item of a matched or an unmatched
\* channel.
NextChain ==
    \/ \E channels \in SidebarMaps : SidebarUpdateHighlights(channels)
    \/ \E name \in ChainNames : HostAddsVideo("first", name, TRUE)
    \/ HostMutation
    \/ HighlightTimeoutFires
    \/ SidebarTimerFires
    \/ NewVideosTimerFires

\* A timer that is set fires.
SpecChain ==
    /\ InitSidebar
    /\ [][NextChain]_vars
    /\ WF_vars(HighlightTimeoutFires)
    /\ WF_vars(SidebarTimerFires)
    /\ WF_vars(NewVideosTimerFires)

-----------------------------------------------------------------------------
(* C27: the annotator's own mutations *)

\* No timer of the annotator is set.
C27_Idle ==
    /\ ~sidebar.highlightTimeout
    /\ sidebar.sidebarTimers = 0
    /\ ~sidebar.newVideosTimer

\* C27: once the host page has stopped changing the document, the annotator
\* performs finitely many further passes and then stays idle.
C27_ChainEnds == <>[]C27_Idle

\* The host page has stopped, and a pass is due that the annotator's own
\* removal of a warning has caused.
C27_Witness ==
    /\ requestsLeft = 0
    /\ sidebar.highlightTimeout /\ sidebar.ownTrigger

-----------------------------------------------------------------------------
(* C29: the warning of a sidebar item *)

\* The match as documented: the name equals a stored handle without its @,
\* letter case and underscores ignored, or equals a stored key, letter case
\* ignored; an empty name matches nothing.
C29_Documented(name, channels) ==
    /\ name # <<>>
    /\ \E key \in DOMAIN channels :
          \/ /\ startsWith(key, <<"@">>)
             /\ removeUnderscores(toLowerCase(name))
                  = removeUnderscores(toLowerCase(SubSeq(key, 2, Len(key))))
          \/ toLowerCase(name) = toLowerCase(key)

\* C29: a sidebar item the annotator has processed carries a warning exactly
\* when its displayed channel name matches a stored key as documented, for
\* the map the item was processed with.
C29_SidebarWarning ==
    \A i \in ItemIds :
       (sidebar.items[i].present /\ sidebar.items[i].processed) =>
          (sidebar.items[i].warning
             <=> C29_Documented(sidebar.items[i].name, sidebar.items[i].map))

-----------------------------------------------------------------------------
(* C28: the widget with the extension context invalidated *)

\* initVoting, called with the context invalidated, has returned: it has set
\* no timer, inserted no button, started no call, sent nothing and left the
\* settings as they were.
C28_InitVotingIdle ==
    /\ ret'.how = "invalidated"
    /\ timerPending' = timerPending
    /\ Range(dom') \subseteq Range(dom)
    /\ calls' = calls
    /\ outbox' = outbox /\ sentVotes' = sentVotes
    /\ votingEnabled' = votingEnabled /\ voteThreshold' = voteThreshold

\* getChannelVotesFromAPI, called with the context invalidated, has returned
\* the stored count or 0 and has sent no message.
C28_LookupDegrades ==
    /\ ret'.how = "invalidated"
    /\ ret'.sent = 0
    /\ ret'.value \in {StoredVotes(storage.channelVotes, ret'.channelId), 0}

\* C28: with the extension context invalidated, initVoting renders nothing,
\* and getChannelVotesFromAPI returns the stored count or 0 without a message
\* to the background; neither lets an exception reach its caller.
C28_DegradesQuietly ==
    [][(ret'.seq # ret.seq /\ ~contextValid)
          => /\ ret'.fn = "initVoting" => C28_InitVotingIdle
             /\ ret'.fn = "getChannelVotesFromAPI" => C28_LookupDegrades
             /\ ret'.how # "threw" \/ ret'.fn = "upvoteChannel"]_vars

\* With the context invalidated getChannelVotesFromAPI has returned the stored
\* count of the page's channel.
C28_Witness ==
    /\ ~contextValid
    /\ ret.fn = "getChannelVotesFromAPI" /\ ret.how = "invalidated"
    /\ ret.value > 0 /\ ret.sent = 0
    /\ ret.value = StoredVotes(storage.channelVotes, ret.channelId)

-----------------------------------------------------------------------------
(* SpecSerial: the coordinator's handlers that read the flagged map and *)
(* write it back, interleaved                                          *)

MaxSerialRequests == 3

\* The requests that read the map and write it back.
MapRequests ==
    [action : {"toggleChannel"}, channelId : ChannelIds,
     channelName : ChannelNames, votes : {NoVotes}]
    \cup {[action |-> "addChannel", channelId |-> r.channelId,
           channelName |-> r.channelName, votes |-> r.votes] : r \in AddRequests}
    \cup [action : {"clearAutoAdded", "clearManualAdded"}, channelId : {Null},
          channelName : {"Title"}, votes : {NoVotes}]

InitSerial ==
    /\ InitResolverUnused
    /\ InitCoordinator(MaxSerialRequests)
    /\ InitWidgetUnused

OtherThanReceived ==
    /\ UNCHANGED <<url, extracted, channelId, flagged, highlightedChannels,
                   settings, location, header, title, currentVideoId, passes,
                   decoration, popup, wait, sidebar, synced,
                   tabs,
                   database,
                   passLog>>
    /\ UNCHANGED widgetVars

\* onMessage: the request is received and its storage.get callback runs.
Receive(r) ==
    /\ received' = Append(received, r)
    /\ OtherThanReceived
    /\ IF r.action = "toggleChannel"
       THEN ToggleChannelGet(r.channelId, r.channelName)
       ELSE IF r.action = "addChannel"
       THEN AddChannelGet(r.channelId, r.channelName, r.votes)
       ELSE IF r.action = "clearAutoAdded"
       THEN ClearAutoAddedGet
       ELSE ClearManualAddedGet

\* The storage.set of a suspended handler completes, the tabs are notified
\* and the request is answered.
Answer(s) ==
    /\ tasks[s] # Idle
    /\ SetCompletes(s, tasks[s].action)
    /\ UNCHANGED received
    /\ OtherThanReceived

NextSerial ==
    \/ \E r \in MapRequests : Receive(r)
    \/ \E s \in Slots : Answer(s)

SpecSerial == InitSerial /\ [][NextSerial]_vars

-----------------------------------------------------------------------------
(* C30: the flagged-map actions are serializable *)

\* The request r handled alone on the map m.
C30_Alone(r, m) ==
    IF r.action = "toggleChannel"
    THEN ToggledChannels(m, r.channelId, r.channelName, HandleOf(r.channelId), now)
    ELSE IF r.action = "addChannel"
    THEN (IF r.channelId \in DOMAIN m THEN m
          ELSE Put(m, r.channelId,
                   VotedEntry(r.channelId, r.channelName, r.votes, now)))
    ELSE IF r.action = "clearAutoAdded" THEN KeepManual(m)
    ELSE KeepAutoAdded(m)

\* The maps that handling the requests at the positions S of reqs one at a
\* time, in some order, leaves when started on m.
RECURSIVE C30_OneAtATime(_, _, _)
C30_OneAtATime(reqs, S, m) ==
    IF S = {} THEN {m}
    ELSE UNION {C30_OneAtATime(reqs, S \ {i}, C30_Alone(reqs[i], m)) : i \in S}

\* C30: once every request has been answered, the stored flagged map is the
\* result of handling the same requests one at a time in some order.
C30_Serializable ==
    (\A s \in Slots : tasks[s] = Idle) =>
       storage.highlightedChannels
          \in C30_OneAtATime(received, DOMAIN received, EmptyMap)

-----------------------------------------------------------------------------
(* SpecMerge: a sync and the handlers of the flagged map, interleaved *)

MaxMergeRequests == 3

InitMerge ==
    /\ InitResolverUnused
    /\ InitCoordinator(MaxMergeRequests)
    /\ InitWidgetUnused

OtherThanSynced ==
    /\ UNCHANGED <<url, extracted, channelId, flagged, highlightedChannels,
                   settings, location, header, title, currentVideoId, passes,
                   decoration, popup, wait, sidebar, received, tabs,
                   database,
                   passLog>>
    /\ UNCHANGED widgetVars

\* scheduledSyncCheck() finds the gate open and issues the GET.
SyncStarts ==
    /\ shouldSync(storage, now)
    /\ ScheduledSyncCheck
    /\ UNCHANGED synced
    /\ OtherThanSynced

SyncFetched(s, remote) ==
    /\ FetchSucceeded(s, remote)
    /\ UNCHANGED synced
    /\ OtherThanSynced

SyncFails(s) ==
    /\ FetchFailed(s)
    /\ UNCHANGED synced
    /\ OtherThanSynced

\* The sync's set completes: the merged map and the new lastAPISync are
\* stored together.
SyncStored(s) ==
    /\ MergeSet(s)
    /\ synced' = [recorded |-> TRUE, ids |-> DOMAIN tasks[s].remote, removed |-> {}]
    /\ OtherThanSynced

\* The set of a toggleChannel, addChannel, clearAutoAdded or clearManualAdded
\* completes. History: the ids the user's action removed, which are the key a
\* toggle read and deleted, and any id for a clearing action.
UserStored(s) ==
    /\ tasks[s] # Idle
    /\ tasks[s].action # "sync"
    /\ SetCompletes(s, tasks[s].action)
    /\ synced' = [synced EXCEPT !.removed =
                    @ \cup (IF tasks[s].action \in {"toggleChannel", "addChannel"}
                            THEN tasks[s].before \ DOMAIN tasks[s].channels
                            ELSE ChannelIds)]
    /\ UNCHANGED received
    /\ OtherThanSynced

NextMerge ==
    \/ SyncStarts
    \/ \E s \in Slots, remote \in RemoteLists : SyncFetched(s, remote)
    \/ \E s \in Slots : SyncFails(s)
    \/ \E s \in Slots : SyncStored(s)
    \/ \E r \in MapRequests : Receive(r)
    \/ \E s \in Slots : UserStored(s)

SpecMerge == InitMerge /\ [][NextMerge]_vars

-----------------------------------------------------------------------------
(* C31: a sync that records a new lastAPISync has its merge in the store *)

\* C31: once a sync has recorded a new lastAPISync and every handler that ran
\* beside it has finished, each id of the fetched list that no user action
\* removed is a key of the stored flagged map.
C31_MergeInStore ==
    (synced.recorded /\ \A s \in Slots : tasks[s] = Idle) =>
       /\ storage.lastAPISync # NoTime
       /\ (synced.ids \ synced.removed) \subseteq DOMAIN storage.highlightedChannels

-----------------------------------------------------------------------------
(* SpecTabs: the tabs' cached maps, the getHighlightedChannels replies and *)
(* the updateHighlights broadcasts in flight                            *)

MaxTabRequests == 2

InitTabs ==
    /\ InitResolverUnused
    /\ InitCoordinator(MaxTabRequests)
    /\ InitWidgetUnused

OtherThanTabs ==
    /\ UNCHANGED <<url, extracted, channelId, flagged, highlightedChannels,
                   settings, location, header, title, currentVideoId, passes,
                   decoration, popup, wait, sidebar, received, synced, database,
                   passLog>>
    /\ UNCHANGED widgetVars

\* A message on its way to a tab; n tells the messages sent apart.
TabMessage(kind, channels) ==
    [kind |-> kind, channels |-> channels, n |-> tabs.sent + 1]

\* The content script starts in tab t: the onMessage listener is registered
\* and init() sends getHighlightedChannels.
ContentScriptLoads(t) ==
    /\ tabs.tab[t].pc = "closed"
    /\ tabs' = [tabs EXCEPT !.tab[t].pc = "asked"]
    /\ UNCHANGED coordVars
    /\ OtherThanTabs

\* onMessage getHighlightedChannels: the storage.get callback answers with
\* the stored map.
GetHighlightedChannels(t) ==
    /\ tabs.tab[t].pc = "asked"
    /\ tabs' = [tabs EXCEPT
          !.sent = @ + 1,
          !.tab[t].pc = "waiting",
          !.tab[t].inbox = @ \cup {TabMessage("reply", storage.highlightedChannels)}]
    /\ UNCHANGED coordVars
    /\ OtherThanTabs

TabToggleChannel(id, name) ==
    /\ ToggleChannelGet(id, name)
    /\ UNCHANGED tabs
    /\ OtherThanTabs

\* notifyAllTabs(channels): tabs.query, then sendMessage to every tab found.
notifyAllTabs(channels) ==
    [tabs EXCEPT
       !.sent = @ + 1,
       !.tab = [t \in TabIds |->
                  IF tabs.tab[t].pc = "closed" THEN tabs.tab[t]
                  ELSE [tabs.tab[t] EXCEPT
                          !.inbox = @ \cup {TabMessage("updateHighlights", channels)}]]]

\* The handler's set completes and it calls notifyAllTabs with the map it wrote.
TabBroadcast(s) ==
    /\ tasks[s] # Idle
    /\ SetCompletes(s, tasks[s].action)
    /\ tabs' = notifyAllTabs(tasks[s].channels)
    /\ OtherThanTabs

\* A message reaches tab t. A reply resumes init(), an updateHighlights runs
\* the listener: both assign highlightedChannels.
TabReceives(t) ==
    /\ \E m \in tabs.tab[t].inbox :
          tabs' = [tabs EXCEPT
             !.tab[t].cache = m.channels,
             !.tab[t].pc = IF m.kind = "reply" THEN "ready" ELSE @,
             !.tab[t].inbox = @ \ {m}]
    /\ UNCHANGED coordVars
    /\ OtherThanTabs

NextTabs ==
    \/ \E t \in TabIds : ContentScriptLoads(t)
    \/ \E t \in TabIds : GetHighlightedChannels(t)
    \/ \E id \in ChannelIds, name \in ChannelNames : TabToggleChannel(id, name)
    \/ \E s \in Slots : TabBroadcast(s)
    \/ \E t \in TabIds : TabReceives(t)

SpecTabs == InitTabs /\ [][NextTabs]_vars

\* Every request is handled, every set completes and every message sent is
\* delivered.
SpecTabsFair ==
    /\ SpecTabs
    /\ WF_vars(\E t \in TabIds : GetHighlightedChannels(t))
    /\ WF_vars(\E s \in Slots : TabBroadcast(s))
    /\ WF_vars(\E t \in TabIds : TabReceives(t))

-----------------------------------------------------------------------------
(* C32: the tabs converge on the stored flagged map *)

C32_InStep ==
    \A t \in TabIds :
       tabs.tab[t].pc # "closed" => tabs.tab[t].cache = storage.highlightedChannels

\* C32: when no further request arrives, every open tab's cached map is
\* eventually the stored map and stays so, in whatever order the replies
\* and broadcasts in flight are delivered.
C32_TabsConverge == <>[]C32_InStep

-----------------------------------------------------------------------------
(* C33: at most one vote button in the page *)

\* C33: at every moment at most one vote button is in the page, however the
\* addVotingButton calls of the timer, of updateSettings and of a navigation
\* interleave.
C33_OneVoteButton == Len(dom) <= 1

-----------------------------------------------------------------------------
(* SpecToggle: the popup's toggle, one request at a time, and the annotator *)
(* of the page it was made on                                            *)

MaxToggles == 3

\* The identifiers the popup takes from the tab's URL.
ToggleIds == {IdHandleFoo, IdHandleFooLower, IdChannel}

InitToggle ==
    /\ InitResolverUnused
    /\ InitCoordinator(MaxToggles)
    /\ InitWidgetUnused

OtherThanAnswer ==
    /\ UNCHANGED <<url, extracted, annotVars>>
    /\ UNCHANGED <<votesCache, votedChannels, contextValid, votingEnabled,
                   voteThreshold, page, timerPending, calls, buttons, dom,
                   outbox, sentVotes, known>>

\* The popup's toggle button, on the page of channel id: toggleChannel is
\* sent and its storage.get callback runs.
PopupToggle(id) ==
    /\ \A s \in Slots : tasks[s] = Idle
    /\ ToggleChannelGet(id, "Title")
    /\ channelId' = id
    /\ flagged' = NotChecked
    /\ ret' = NoReturn
    /\ UNCHANGED highlightedChannels
    /\ OtherThanAnswer

\* The set completes, the tabs are notified and the popup is answered
\* {success: true, highlighted: !!channels[channelId]}.
ToggleAnswered(s) ==
    /\ ToggleChannelSet(s)
    /\ ret' = Returned("toggleChannel", tasks[s].channelId, NoVotes, 0,
                       IF tasks[s].channelId \in DOMAIN tasks[s].channels
                       THEN "highlighted" ELSE "removed")
    /\ UNCHANGED <<channelId, highlightedChannels, flagged>>
    /\ OtherThanAnswer

\* onMessage updateHighlights in the page's tab: the map is replaced and
\* applyHighlights asks isChannelFlagged for the page's channel.
BroadcastApplied ==
    /\ ret.fn = "toggleChannel"
    /\ ~flagged.done
    /\ highlightedChannels' = notified
    /\ flagged' = [done |-> TRUE, value |-> isChannelFlagged(channelId, notified)]
    /\ UNCHANGED <<channelId, ret>>
    /\ UNCHANGED coordVars
    /\ OtherThanAnswer

NextToggle ==
    \/ \E id \in ToggleIds : PopupToggle(id)
    \/ \E s \in Slots : ToggleAnswered(s)
    \/ BroadcastApplied

SpecToggle == InitToggle /\ [][NextToggle]_vars

-----------------------------------------------------------------------------
(* C34: the popup's toggle and the annotator agree *)

\* C34: after a toggleChannel request has been answered and its broadcast
\* applied, isChannelFlagged of the toggled identifier is what the answer's
\* highlighted says.
C34_ToggleAgrees ==
    (flagged.done /\ ret.fn = "toggleChannel") =>
       (flagged.value <=> ret.how = "highlighted")

-----------------------------------------------------------------------------
(* C35: a write of the flagged map is followed by its broadcast *)

\* The step completes a write of the flagged map by one of the actions that
\* change it on request or by a sync.
C35_WritesMap ==
    \/ ClearAll
    \/ \E s \in Slots :
          \/ ToggleChannelSet(s)
          \/ AddChannelSet(s)
          \/ ClearAutoAddedSet(s)
          \/ ClearManualAddedSet(s)
          \/ MergeSet(s)

-----------------------------------------------------------------------------
(* SpecRefresh: refreshFromAPI and the answer it sends *)

MaxRefreshRequests == 3

InitRefresh ==
    /\ InitResolverUnused
    /\ InitCoordinator(MaxRefreshRequests)
    /\ InitWidgetUnused

\* onMessage refreshFromAPI: fetchFlaggedChannelsFromAPI(true).then(...)
\* answers success: true and .catch(...) answers success: false.
RefreshAnswer(rejected) == IF rejected THEN "success:false" ELSE "success:true"

\* History: the refresh whose sync has ended is answered; value 1 when the
\* list was fetched and merged, 0 when the fetch failed.
RefreshAnswered(merged, rejected) ==
    /\ ret' = Returned("refreshFromAPI", Null, IF merged THEN 1 ELSE 0, 0,
                       RefreshAnswer(rejected))
    /\ UNCHANGED <<channelId, highlightedChannels, flagged>>
    /\ OtherThanAnswer

RefreshRequested ==
    /\ RefreshFromAPI
    /\ UNCHANGED <<ret, channelId, highlightedChannels, flagged>>
    /\ OtherThanAnswer

RefreshFetched(s, remote) ==
    /\ FetchSucceeded(s, remote)
    /\ UNCHANGED <<ret, channelId, highlightedChannels, flagged>>
    /\ OtherThanAnswer

\* The set completes and fetchFlaggedChannelsFromAPI returns: its promise
\* is fulfilled.
RefreshMerged(s) ==
    /\ MergeSet(s)
    /\ RefreshAnswered(TRUE, FALSE)

\* The fetch fails: the catch block of fetchFlaggedChannelsFromAPI logs the
\* error and the function returns, so its promise is fulfilled as well.
RefreshFailed(s) ==
    /\ FetchFailed(s)
    /\ RefreshAnswered(FALSE, FALSE)

NextRefresh ==
    \/ RefreshRequested
    \/ \E s \in Slots, remote \in RemoteLists : RefreshFetched(s, remote)
    \/ \E s \in Slots : RefreshMerged(s)
    \/ \E s \in Slots : RefreshFailed(s)

SpecRefresh == InitRefresh /\ [][NextRefresh]_vars

-----------------------------------------------------------------------------
(* C36: refreshFromAPI reports the outcome of its sync *)

\* C36: refreshFromAPI answers success: true when the list was fetched and
\* merged and success: false when the fetch failed.
C36_ReportsOutcome ==
    ret.fn = "refreshFromAPI" =>
       (ret.how = "success:true" <=> ret.value = 1)

-----------------------------------------------------------------------------
(* C37: a pass started for an earlier video *)

\* The video recorded as processed is not the video of the page: a pass
\* that started on an earlier video recorded its own id after the
\* navigation.
C37_StaleId ==
    /\ location.kind = "video"
    /\ currentVideoId # Null
    /\ currentVideoId # location.videoId

\* With every pass completed after such a pass, the title carries a warning
\* exactly when the channel of the page's video is flagged.
C37_TitleOfThePage ==
    (C20_Quiet /\ C37_StaleId /\ settings.showVideoTitle) =>
       (title.warnings > 0 <=>
           AnyFlagged(location.channelIds, highlightedChannels))

\* The navigation to the video whose id the stale pass recorded starts a
\* pass that goes on to the title of that video.
C37_NavigationRuns ==
    \A loc \in Pages :
       (/\ C20_Quiet /\ C37_StaleId /\ settings.showVideoTitle
        /\ loc.kind = "video" /\ loc.videoId = currentVideoId
        /\ NavigateFinish(loc))
       => \E s \in PassSlots : passes'[s] # NoPass /\ passes'[s].pc = "video"

\* C37: a pass started for an earlier video decides neither the title of
\* the later video nor, through the id it records, whether a later
\* navigation is processed.
C37_StalePass == []C37_TitleOfThePage /\ [][C37_NavigationRuns]_vars

-----------------------------------------------------------------------------
(* C38: the sidebar warnings follow the flagged map *)

\* Every sidebar pass that was due has run: no timer of the annotator is set.
C38_PassesDone ==
    /\ sidebar.sidebarTimers = 0
    /\ ~sidebar.newVideosTimer
    /\ ~sidebar.highlightTimeout

\* C38: once the sidebar passes that follow an updateHighlights message have
\* run, each sidebar item that shows a channel name carries the warning and the
\* border exactly when its channel is matched by the map of the message,
\* whether or not an earlier pass had processed it.
C38_SidebarFollowsMap ==
    C38_PassesDone =>
       \A i \in ItemIds :
          (/\ sidebar.items[i].present /\ sidebar.items[i].named
           /\ sidebar.items[i].name # <<>>) =>
             LET matched == SidebarMatches(sidebar.items[i].name, highlightedChannels)
             IN /\ sidebar.items[i].warning <=> matched
                /\ sidebar.items[i].border <=> matched

-----------------------------------------------------------------------------
(* SpecDatabase: ChannelDatabase (database.js), one call at a time *)

MaxDatabaseCalls == 4

\* removeChannel that clears the highlighted property and keeps the entry.
removeChannelKeepsEntry(data, id) ==
    IF id \in DOMAIN data THEN [data EXCEPT ![id].highlighted = FALSE] ELSE data

\* addChannel: data[channelId] = {id, name, handle, addedAt, highlighted: true}
addChannel(data, id, name, handle, t) ==
    Put(data, id, [id |-> id, name |-> name, handle |-> handle, addedAt |-> t,
                   highlighted |-> TRUE])

\* removeChannel: delete data[channelId]
removeChannel(data, id) == Remove(data, id)

\* isChannelHighlighted: data[channelId]?.highlighted || false
isChannelHighlighted(data, id) ==
    IF id \in DOMAIN data THEN data[id].highlighted ELSE FALSE

\* toggleChannel: the object it leaves in the store.
toggleChannel(data, id, name, handle, t) ==
    IF isChannelHighlighted(data, id)
    THEN removeChannel(data, id)
    ELSE addChannel(data, id, name, handle, t)

\* clearAll: set({highlightedChannels: {}})
clearAll == EmptyMap

\* getCount: Object.keys(data).length
getCount(data) == Cardinality(DOMAIN data)

\* The channel ids the callers pass.
DatabaseIds == {IdHandleFoo, IdHandleBar, IdChannel}

\* What init() finds in the store: nothing, or the map the background
\* script keeps under the same key.
DatabaseStores ==
    {EmptyMap,
     Put(EmptyMap, IdHandleFoo, ManualEntry(IdHandleFoo, "Title", IdHandleFoo, 1))}

InitDatabase ==
    /\ url = Null
    /\ extracted = NotCalled
    /\ channelId = Null
    /\ highlightedChannels = EmptyMap
    /\ flagged = NotChecked
    /\ settings = DefaultSettings
    /\ location = HomePage
    /\ header = Undecorated
    /\ title = NoWarning
    /\ currentVideoId = Null
    /\ passes = [s \in PassSlots |-> NoPass]
    /\ decoration = NotDecorating
    /\ popup = PopupUnresolved
    /\ wait = NotWaiting
    /\ sidebar = SidebarUnused
    /\ received = <<>>
    /\ synced = NotSynced
    /\ tabs = NoTabs
    /\ database \in {DatabaseOn(data) : data \in DatabaseStores}
    /\ passLog = LogReset
    /\ InitCoordinator(MaxDatabaseCalls)
    /\ InitWidgetUnused

OtherThanDatabase ==
    /\ UNCHANGED <<url, extracted, channelId, flagged, highlightedChannels,
                   settings, location, header, title, currentVideoId, passes,
                   decoration, popup, wait, sidebar, received, synced, tabs,
                   passLog>>
    /\ UNCHANGED <<storage, now, tasks, hist, lastGet>>
    /\ NoNotify
    /\ UNCHANGED widgetVars

\* History: the call op on id has returned, leaving data in the store.
Called(op, id, data, returned, member) ==
    [data |-> data, member |-> member,
     last |-> [op |-> op, id |-> id, returned |-> returned]]

CallAddChannel(id, name) ==
    /\ Request
    /\ database' = Called("addChannel", id,
                          addChannel(database.data, id, name, HandleOf(id), now),
                          TRUE, database.member \cup {id})
    /\ OtherThanDatabase

CallRemoveChannel(id) ==
    /\ Request
    /\ database' = Called("removeChannel", id, removeChannel(database.data, id),
                          TRUE, database.member \ {id})
    /\ OtherThanDatabase

\* toggleChannel returns false after removeChannel, true after addChannel.
CallToggleChannel(id, name) ==
    LET returned == ~isChannelHighlighted(database.data, id)
    IN /\ Request
       /\ database' = Called("toggleChannel", id,
                             toggleChannel(database.data, id, name, HandleOf(id), now),
                             returned,
                             IF returned THEN database.member \cup {id}
                             ELSE database.member \ {id})
       /\ OtherThanDatabase

CallClearAll ==
    /\ Request
    /\ database' = Called("clearAll", Null, clearAll, TRUE, {})
    /\ OtherThanDatabase

NextDatabase ==
    \/ \E id \in DatabaseIds, name \in ChannelNames : CallAddChannel(id, name)
    \/ \E id \in DatabaseIds : CallRemoveChannel(id)
    \/ \E id \in DatabaseIds, name \in ChannelNames : CallToggleChannel(id, name)
    \/ CallClearAll

SpecDatabase == InitDatabase /\ [][NextDatabase]_vars

-----------------------------------------------------------------------------
(* C39: ChannelDatabase *)

\* C39: after any sequence of calls, isChannelHighlighted(id) is true exactly
\* when the last call that affected id was an addChannel or a toggleChannel
\* that returned true, toggleChannel returns the new membership of its id,
\* and getCount is the number of ids for which isChannelHighlighted is true.
C39_ChannelDatabase ==
    /\ \A id \in DatabaseIds :
          isChannelHighlighted(database.data, id) <=> id \in database.member
    /\ database.last.op = "toggleChannel" =>
          database.last.returned
             = isChannelHighlighted(database.data, database.last.id)
    /\ getCount(database.data)
          = Cardinality({id \in DatabaseIds : isChannelHighlighted(database.data, id)})

\* A toggleChannel has returned false and left one other channel
\* highlighted.
C39_Witness ==
    /\ database.last.op = "toggleChannel"
    /\ ~database.last.returned
    /\ getCount(database.data) = 1

-----------------------------------------------------------------------------
(* SpecDecorate: highlightElement, then unhighlightElement, of every source *)
(* variant applied to every element                                         *)

InitDecorate ==
    /\ url = Null
    /\ extracted = NotCalled
    /\ channelId = Null
    /\ flagged = NotChecked
    /\ highlightedChannels = EmptyMap
    /\ settings \in AllSettings
    /\ location = ChannelPage(<<IdHandleFoo>>)
    /\ header \in Elements
    /\ title = NoWarning
    /\ currentVideoId = Null
    /\ passes = [s \in PassSlots |-> NoPass]
    /\ decoration \in [variant : Variants, step : {"none"}, assigned : {{}}]
    /\ decoration.variant \notin WarningVariants => header.warnings = 0
    /\ popup = PopupUnresolved
    /\ wait = NotWaiting
    /\ sidebar = SidebarUnused
    /\ received = <<>>
    /\ synced = NotSynced
    /\ tabs = NoTabs
    /\ database = NewDatabase
    /\ passLog = LogReset
    /\ InitCoordinator(0)
    /\ InitWidgetUnused

OtherThanElement ==
    /\ UNCHANGED <<url, extracted, channelId, flagged, highlightedChannels,
                   settings, location, title, currentVideoId, passes, popup,
                   wait,
                   sidebar,
                   received,
                   synced,
                   tabs,
                   database,
                   passLog>>
    /\ UNCHANGED <<coordVars, widgetVars>>

CallHighlightElement(named) ==
    LET v == decoration.variant
    IN /\ decoration.step = "none"
       /\ header' = highlightElementIn(v, header, settings.showChannelHeader, named)
       /\ decoration' = [variant |-> v, step |-> "highlighted",
                         assigned |-> IF ReachesStyles(v, header, settings.showChannelHeader)
                                      THEN HighlightStyles(v) ELSE {}]
       /\ OtherThanElement

CallUnhighlightElement ==
    /\ decoration.step = "highlighted"
    /\ header' = unhighlightElementIn(decoration.variant, header)
    /\ decoration' = [decoration EXCEPT !.step = "removed"]
    /\ OtherThanElement

NextDecorate ==
    \/ \E named \in BOOLEAN : CallHighlightElement(named)
    \/ CallUnhighlightElement

SpecDecorate == InitDecorate /\ [][NextDecorate]_vars

-----------------------------------------------------------------------------
(* C21: removal reverses decoration *)

\* C21: in every source variant, highlightElement followed by
\* unhighlightElement leaves the element with no warning element, without the
\* marker class and with every inline style that highlightElement assigned
\* cleared.
C21_RemovalReverses ==
    decoration.step = "removed" =>
       /\ header.warnings = 0
       /\ ~header.marked
       /\ header.styles \cap decoration.assigned = {}

-----------------------------------------------------------------------------
(* SpecExtract: extractChannelId applied to every URL of URLs *)

InitExtract ==
    /\ url \in URLs
    /\ extracted = NotCalled
    /\ channelId = Null
    /\ highlightedChannels = EmptyMap
    /\ flagged = NotChecked
    /\ InitAnnotatorUnused
    /\ InitCoordinator(0)
    /\ InitWidgetUnused

CallExtractChannelId ==
    /\ ~extracted.done
    /\ extracted' = [done |-> TRUE, value |-> extractChannelId(url)]
    /\ UNCHANGED <<url, channelId, highlightedChannels, flagged, annotVars>>
    /\ UNCHANGED <<coordVars, widgetVars>>

NextExtract == CallExtractChannelId

SpecExtract == InitExtract /\ [][NextExtract]_vars

-----------------------------------------------------------------------------
(* SpecIdentity: the three resolvers of the channel identifier applied to *)
(* the URL of one page                                                     *)

\* extractChannelIdFromUrl (popup.js:152-172): /channel/ is tried first.
extractChannelIdFromUrl(u) ==
    IF u = Null THEN Null
    ELSE IF RegexCapture(u, PrefixChannel) # Null
         THEN RegexCapture(u, PrefixChannel)
    ELSE IF RegexCapture(u, PrefixHandle) # Null
         THEN <<"@">> \o RegexCapture(u, PrefixHandle)
    ELSE IF RegexCapture(u, PrefixCustom) # Null
         THEN RegexCapture(u, PrefixCustom)
    ELSE IF RegexCapture(u, PrefixUser) # Null
         THEN RegexCapture(u, PrefixUser)
    ELSE Null

\* window.location.pathname of the page at URL u: neither origin, query nor
\* fragment.
pathname(u) ==
    LET scheme == <<"h", "t", "t", "p", "s", ":", "/", "/">>
        start == IF startsWith(u, scheme)
                 THEN IndexOfAny(u, {"/", "?", "#"}, Len(scheme) + 1)
                 ELSE 1
        stop == IndexOfAny(u, {"?", "#"}, start)
    IN SubSeq(u, start, stop - 1)

\* extractChannelIdFromPage (part_004:1036-1057) on the page at URL u.
extractChannelIdFromPage(u) ==
    LET p == pathname(u)
    IN IF RegexCapture(p, PrefixHandle) # Null
       THEN <<"@">> \o RegexCapture(p, PrefixHandle)
       ELSE IF RegexCapture(p, PrefixChannel) # Null
       THEN RegexCapture(p, PrefixChannel)
       ELSE IF RegexCapture(p, PrefixCustom) # Null
       THEN RegexCapture(p, PrefixCustom)
       ELSE IF RegexCapture(p, PrefixUser) # Null
       THEN RegexCapture(p, PrefixUser)
       ELSE Null

SiteName == <<"y", "o", "u", "t", "u", "b", "e", ".", "c", "o", "m">>

QueryNextChannel ==
    <<"?", "n", "e", "x", "t", "=", "/", "c", "h", "a", "n", "n", "e", "l", "/", "U", "C", "1">>

\* The URLs of the active tab.
TabURLs == {o \o p \o q : o \in Origins, p \in Paths,
                          q \in Queries \cup {QueryNextChannel}}

InitIdentity ==
    /\ url \in TabURLs
    /\ extracted = NotCalled
    /\ channelId = Null
    /\ highlightedChannels = EmptyMap
    /\ flagged = NotChecked
    /\ InitAnnotatorUnused
    /\ InitCoordinator(0)
    /\ InitWidgetUnused

\* getCurrentChannelInfo (popup.js:94-112): on a tab of the site the popup
\* takes the channel identifier from the tab's URL.
GetCurrentChannelInfo ==
    /\ ~popup.resolved
    /\ includes(url, SiteName)
    /\ popup' = [popup EXCEPT !.resolved = TRUE,
                              !.currentChannelId = extractChannelIdFromUrl(url)]
    /\ UNCHANGED <<url, extracted, channelId, highlightedChannels, flagged,
                   settings, location, header, title, currentVideoId, passes,
                   decoration, wait,
                   sidebar,
                   received,
                   synced,
                   tabs,
                   database,
                   passLog>>
    /\ UNCHANGED <<coordVars, widgetVars>>

\* The voting widget resolves the channel of its page.
CallExtractChannelIdFromPage ==
    /\ ret = NoReturn
    /\ ret' = Returned("extractChannelIdFromPage", extractChannelIdFromPage(url),
                       NoVotes, 0, "none")
    /\ UNCHANGED <<votesCache, votedChannels, contextValid, votingEnabled,
                   voteThreshold, page, timerPending, calls, buttons, dom,
                   outbox, sentVotes, known>>
    /\ UNCHANGED <<resolverVars, coordVars>>

NextIdentity ==
    \/ CallExtractChannelId
    \/ GetCurrentChannelInfo
    \/ CallExtractChannelIdFromPage

SpecIdentity == InitIdentity /\ [][NextIdentity]_vars

-----------------------------------------------------------------------------
(* C25: one channel, one identifier *)

\* The popup returns the identifier the annotator returns.
C25_PopupAgrees ==
    (extracted.done /\ popup.resolved) => popup.currentChannelId = extracted.value

\* The voting widget returns the identifier the annotator returns.
C25_WidgetAgrees ==
    (extracted.done /\ ret.fn = "extractChannelIdFromPage")
       => ret.channelId = extracted.value

\* C25: for every URL the popup's extractChannelIdFromUrl, the annotator's
\* extractChannelId and the widget's extractChannelIdFromPage return the
\* same identifier.
C25_OneIdentifier == C25_PopupAgrees /\ C25_WidgetAgrees

-----------------------------------------------------------------------------
(* SpecFlagged: isChannelFlagged applied to every identifier and map *)

InitFlagged ==
    /\ url = Null
    /\ extracted = NotCalled
    /\ channelId \in LookupIds
    /\ highlightedChannels \in CacheMaps
    /\ flagged = NotChecked
    /\ InitAnnotatorUnused
    /\ InitCoordinator(0)
    /\ InitWidgetUnused

CallIsChannelFlagged ==
    /\ ~flagged.done
    /\ flagged' = [done |-> TRUE,
                   value |-> isChannelFlagged(channelId, highlightedChannels)]
    /\ UNCHANGED <<url, extracted, channelId, highlightedChannels, annotVars>>
    /\ UNCHANGED <<coordVars, widgetVars>>

NextFlagged == CallIsChannelFlagged

SpecFlagged == InitFlagged /\ [][NextFlagged]_vars

-----------------------------------------------------------------------------
(* C1: isChannelFlagged *)

\* Equality ignoring letter case, stated without toLowerCase: the strings
\* have the same length and at each position carry the same character or
\* the two cases of one letter.
SameIgnoringCase(a, b) ==
    /\ Len(a) = Len(b)
    /\ \A i \in DOMAIN a :
          \/ a[i] = b[i]
          \/ \E k \in DOMAIN LowerLetters :
                {a[i], b[i]} = {LowerLetters[k], UpperLetters[k]}

IsHandle(x) == Len(x) >= 1 /\ x[1] = "@"

C1_Documented(x, M) ==
    \/ x \in DOMAIN M
    \/ IsHandle(x) /\ \E k \in DOMAIN M : SameIgnoringCase(k, x)
    \/ \E k \in DOMAIN M :
          \/ M[k].id = x
          \/ IsHandle(M[k].id) /\ SameIgnoringCase(M[k].id, x)

-----------------------------------------------------------------------------
(* C2: extractChannelId *)

\* The path of a URL: what follows the scheme and authority, up to the query
\* or fragment.
C2_PathOf(u) ==
    LET scheme == <<"h", "t", "t", "p", "s", ":", "/", "/">>
        start == IF startsWith(u, scheme)
                 THEN IndexOfAny(u, {"/", "?", "#"}, Len(scheme) + 1)
                 ELSE 1
        stop == IndexOfAny(u, {"?", "#"}, start)
    IN SubSeq(u, start, stop - 1)

\* The n-th segment of a path ("/a/b" has segments "a" and "b").
C2_Segment(p, n) ==
    LET RECURSIVE seg(_, _)
        seg(from, k) ==
            IF from > Len(p) \/ p[from] # "/" THEN <<>>
            ELSE LET stop == IndexOfAny(p, {"/"}, from + 1)
                 IN IF k = 1 THEN SubSeq(p, from + 1, stop - 1)
                    ELSE seg(stop, k - 1)
    IN seg(1, n)

\* The documented canonical form of a URL: @name for /@name, ID for
\* /channel/ID, name for /c/name and /user/name, null for any other path.
C2_Documented(u) ==
    LET p == C2_PathOf(u)
        first == C2_Segment(p, 1)
        second == C2_Segment(p, 2)
    IN IF IsHandle(first) /\ Len(first) > 1 THEN first
       ELSE IF first \in {<<"c", "h", "a", "n", "n", "e", "l">>, <<"c">>,
                          <<"u", "s", "e", "r">>}
            THEN second
       ELSE Null

\* C2: extractChannelId returns '@name' for a /@name URL, ID for /channel/ID,
\* name for /c/name and for /user/name, and null for every URL whose path is
\* none of the four shapes.
C2_ExtractChannelId ==
    extracted.done => extracted.value = C2_Documented(url)

====
